---------------------------- MODULE Spec2Model ----------------------------
(***************************************************************************)
(* A model of the metrics aggregation engine of python_streamlit_euro_2024 *)
(* (src/src/metrics): the aggregation primitives of BaseMetricSet, the     *)
(* metric catalog PassMetricsCore, the scope wrappers and the              *)
(* minutes-played reconstructor.                                           *)
(*                                                                         *)
(* Conventions                                                             *)
(*  - A DataFrame is a record [cols, index, row, dtypes]; a row is a       *)
(*    record with one field per column. The event table of the minutes     *)
(*    reconstructor, which never looks at labels, is [cols, rows].         *)
(*  - A missing text value (None / NaN) is the string Null; a missing      *)
(*    number (NaN) is the empty tuple and a number n is the tuple <<n>>.   *)
(*  - A float quotient a / b is carried as the fraction <<n, d>> in lowest *)
(*    terms, 0.0 as <<0, 1>>.                                              *)
(*  - Clock times of the minutes reconstructor are carried in seconds      *)
(*    (60 * absolute minute), so that minute + second / 60 stays integer.  *)
(*  - A call returns [raised, value]: the value, or the exception raised.  *)
(*                                                                         *)
(* Specifications                                                          *)
(*  - SpecMin:   MinutesPlayedCalculator.compute over event tables.        *)
(*  - SpecRate:  attempts / successes / success_rate under masks.          *)
(*  - SpecTB:    the through-ball detector over mixed flag encodings.      *)
(*  - SpecP90:   per-90 normalisation under injected minutes maps.         *)
(*  - SpecDir:   direction buckets by zone and over the whole pitch.       *)
(*  - SpecScope: the scope wrappers against each other and the catalog.    *)
(*  - SpecOwn:   the instance's table against later changes of the source. *)
(*  - SpecBox:   the Box mask and the into-box and inside-box counts.      *)
(*  - SpecSucc:  the success predicate and passing_percentage.             *)
(*  - SpecLen:   long-ball and pressure metrics with columns missing.      *)
(*  - SpecTop:   top_n and top_by_bool rankings.                           *)
(*  - SpecCols:  compute over event tables that lack columns.              *)
(*  - SpecExtra: compute over matches with extra time and penalties.       *)
(*  - SpecZone:  zone masks, zone direction shares, deep progressions.     *)
(*  - SpecShare: every rate-style metric on one table.                    *)
(*  - SpecFall:  the fallback minutes map and the per-90 divisor.          *)
(*  - SpecMulti: compute over a table that covers two matches.             *)
(*  - SpecMap:   the caller's minutes dict after set_minutes_map.          *)
(***************************************************************************)
EXTENDS Integers, Sequences, FiniteSets, TLC

VARIABLES
    events,         \* minutes reconstructor: the event table handed to compute
    minutes_total,  \* minutes reconstructor: [called, map], the map compute returned
    source,         \* the caller's event table, handed to the constructors
    inst,           \* the metric set instance the caller holds
    res,            \* what the caller's last call returned
    minutes         \* the caller's minutes dict: [d, held], held when
                    \* self._minutes_map is this same dict object

minVars == <<events, minutes_total>>

metVars == <<source, inst, res, minutes>>

vars == <<events, minutes_total, source, inst, res, minutes>>

-----------------------------------------------------------------------------
(* Shared helpers                                                          *)

Null == "<null>"

NaN == <<>>

Num(n) == <<n>>

IsNum(v) == Len(v) = 1

Val(v) == v[1]

Max(a, b) == IF a >= b THEN a ELSE b

Min(a, b) == IF a <= b THEN a ELSE b

RECURSIVE Gcd(_, _)
Gcd(a, b) == IF b = 0 THEN a ELSE Gcd(b, a % b)

\* The float n / d (d > 0, n >= 0) as a fraction in lowest terms.
Frac(n, d) == IF n = 0 THEN <<0, 1>> ELSE <<n \div Gcd(n, d), d \div Gcd(n, d)>>

Zero == <<0, 1>>

Range(s) == {s[i] : i \in 1..Len(s)}

\* A cell of a column that may hold mixed Python values: NaN, a bool, an int, a
\* float (in tenths) or text (a sequence of one-character strings).
VNaN == [t |-> "nan", b |-> FALSE, n |-> 0, s |-> <<>>]

VBool(b) == [t |-> "bool", b |-> b, n |-> 0, s |-> <<>>]

VInt(n) == [t |-> "int", b |-> FALSE, n |-> n, s |-> <<>>]

VFloat(tenths) == [t |-> "float", b |-> FALSE, n |-> tenths, s |-> <<>>]

VStr(s) == [t |-> "str", b |-> FALSE, n |-> 0, s |-> s]

\* The columns whose cells are such values.
TypedCols == {"pass_through_ball", "pass_technique"}

\* The dtype pandas infers for a column built from these cells.
InferDtype(cells) ==
    IF cells = {} THEN "object"
    ELSE IF \A v \in cells : v.t = "bool" THEN "bool"
    ELSE IF \A v \in cells : v.t = "int" THEN "int64"
    ELSE IF \A v \in cells : v.t \in {"int", "float", "nan"} THEN "float64"
    ELSE "object"

-----------------------------------------------------------------------------
(* DataFrames and Series                                                   *)
(*                                                                         *)
(* A DataFrame is [cols, index, row, dtypes]: the column names, the        *)
(* sequence of index labels, the row of every label and the dtype of every *)
(* mixed-value column. A Series is a function from index labels to values. *)

EmptyFrame(cols) ==
    [cols |-> cols, index |-> <<>>, row |-> <<>>,
     dtypes |-> [c \in cols \cap TypedCols |-> "object"]]

Labels(df) == {df.index[i] : i \in 1..Len(df.index)}

IsEmpty(df) == df.index = <<>>

\* df[mask] for a boolean Series aligned to df: the rows whose label is True.
Select(df, mask) ==
    LET keep == SelectSeq(df.index, LAMBDA l : mask[l])
    IN [cols |-> df.cols, index |-> keep,
        row |-> [l \in {keep[i] : i \in 1..Len(keep)} |-> df.row[l]],
        dtypes |-> df.dtypes]

\* df.reset_index(drop=True): the labels become 0 .. n-1.
reset_index(df) ==
    [cols |-> df.cols,
     index |-> [i \in 1..Len(df.index) |-> i - 1],
     row |-> [l \in 0..(Len(df.index) - 1) |-> df.row[df.index[l + 1]]],
     dtypes |-> df.dtypes]

\* The caller's table grows by one row under the next RangeIndex label.
AppendRow(df, r) ==
    LET row == df.row @@ (Len(df.index) :> r)
    IN [cols |-> df.cols, index |-> Append(df.index, Len(df.index)), row |-> row,
        dtypes |-> [c \in DOMAIN df.dtypes |-> InferDtype({row[l][c] : l \in DOMAIN row})]]

\* df[c] == v, a boolean Series.
ColumnEquals(df, c, v) == [l \in Labels(df) |-> df.row[l][c] = v]

\* pd.Series(b, index=df.index)
ConstSeries(df, b) == [l \in Labels(df) |-> b]

\* int(mask.sum())
CountTrue(mask) == Cardinality({l \in DOMAIN mask : mask[l]})

\* df if player is None else df[df["player"] == player]
ByPlayer(df, player) ==
    IF player = Null THEN df ELSE Select(df, ColumnEquals(df, "player", player))

-----------------------------------------------------------------------------
(* BaseMetricSet: src/src/metrics/base_metrics.py                          *)

\* BaseMetricSet.__post_init__: the instance's own filtered copy of df.
post_init(df, event_type) ==
    LET copy == df
        typed == IF event_type # Null /\ "type" \in copy.cols
                 THEN Select(copy, ColumnEquals(copy, "type", event_type))
                 ELSE copy
    IN reset_index(typed)

\* _is_success with the convention turned round: a recorded outcome is a success.
is_success_notna(self, df) ==
    IF self.outcome_column # Null /\ self.outcome_column \in df.cols
    THEN [l \in Labels(df) |-> df.row[l][self.outcome_column] # Null]
    ELSE ConstSeries(df, FALSE)

\* BaseMetricSet._is_success: NaN in the outcome column means success.
is_success(self, df) ==
    IF self.outcome_column # Null /\ self.outcome_column \in df.cols
    THEN [l \in Labels(df) |-> df.row[l][self.outcome_column] = Null]
    ELSE ConstSeries(df, FALSE)

\* m.reindex(df.index, fill_value=False)
reindex(m, df) ==
    [l \in Labels(df) |-> IF l \in DOMAIN m THEN m[l] ELSE FALSE]

\* BaseMetricSet._and_all: the AND of the masks that are not None.
RECURSIVE and_all_from(_, _, _)
and_all_from(mask, df, masks) ==
    IF masks = <<>> THEN mask
    ELSE IF Head(masks).none THEN and_all_from(mask, df, Tail(masks))
    ELSE LET m == reindex(Head(masks).s, df)
         IN and_all_from([l \in Labels(df) |-> mask[l] /\ m[l]], df, Tail(masks))

and_all(df, masks) == and_all_from(ConstSeries(df, TRUE), df, masks)

\* BaseMetricSet.where
where(df, masks) == IF masks = <<>> THEN df ELSE Select(df, and_all(df, masks))

\* BaseMetricSet.attempts
attempts(df, masks) == Len(where(df, masks).index)

\* Successes counted over the whole table, the masks forgotten.
successesUnmasked(self, df, masks) ==
    IF IsEmpty(df) THEN 0 ELSE CountTrue(is_success(self, df))

\* BaseMetricSet.successes
successes(self, df, masks) ==
    LET sub == where(df, masks)
    IN IF IsEmpty(sub) THEN 0 ELSE CountTrue(is_success(self, sub))

\* BaseMetricSet.success_rate
success_rate(self, df, masks) ==
    LET att == attempts(df, masks)
    IN IF att = 0 THEN Zero ELSE Frac(successes(self, df, masks), att)

\* A mask argument: None, or a boolean Series.
NoMask == [none |-> TRUE, s |-> <<>>]

Mask(series) == [none |-> FALSE, s |-> series]

\* The columns of the flattened pass events the model carries.
PassCols == {"type", "player", "team", "match_id", "pass_outcome", "pass_type",
             "x", "y", "pass_end_x", "pass_end_y", "pass_through_ball", "pass_technique"}

\* A completed open-play pass of player P1 with no coordinates and no flags.
BaseRow ==
    [type |-> "Pass", player |-> "P1", team |-> "T1", match_id |-> Num(1),
     pass_outcome |-> Null, pass_type |-> Null,
     x |-> NaN, y |-> NaN, pass_end_x |-> NaN, pass_end_y |-> NaN,
     pass_through_ball |-> VNaN, pass_technique |-> VNaN]

\* The instance before any constructor ran.
NoInst ==
    [cls |-> Null, df |-> [own |-> TRUE, tbl |-> EmptyFrame({})],
     event_type |-> Null, outcome_column |-> Null, minutes_map |-> <<>>, key |-> Null]

NoRes == [op |-> "none"]

Constructed == inst.cls # Null

\* self.df = df, the table kept by reference: no copy, no filter.
PostInitAlias(tbl, callers, event_type) == [own |-> ~callers, tbl |-> tbl]

\* The object self.df names after __post_init__: df.copy(), filtered and
\* re-indexed, is a table of the instance's own. callers tells whether tbl is
\* the caller's table object or a filtered copy the wrapper made.
PostInitObj(tbl, callers, event_type) == [own |-> TRUE, tbl |-> post_init(tbl, event_type)]

\* What self.df reads now.
SelfDf == IF inst.df.own THEN inst.df.tbl ELSE source

\* The caller holds no minutes dict yet (an empty one of its own).
NoMinutes == [d |-> <<>>, held |-> FALSE]

MetIdle ==
    source = EmptyFrame(PassCols) /\ inst = NoInst /\ res = NoRes /\ minutes = NoMinutes

-----------------------------------------------------------------------------
(* Text: str(), str.lower(), str.strip() and the through-ball pattern      *)

UpperToLower ==
    "A" :> "a" @@ "B" :> "b" @@ "C" :> "c" @@ "D" :> "d" @@ "E" :> "e" @@ "F" :> "f" @@
    "G" :> "g" @@ "H" :> "h" @@ "I" :> "i" @@ "J" :> "j" @@ "K" :> "k" @@ "L" :> "l" @@
    "M" :> "m" @@ "N" :> "n" @@ "O" :> "o" @@ "P" :> "p" @@ "Q" :> "q" @@ "R" :> "r" @@
    "S" :> "s" @@ "T" :> "t" @@ "U" :> "u" @@ "V" :> "v" @@ "W" :> "w" @@ "X" :> "x" @@
    "Y" :> "y" @@ "Z" :> "z"

Digits == <<"0", "1", "2", "3", "4", "5", "6", "7", "8", "9">>

\* The characters the pattern's \b treats as word characters.
WordChars ==
    DOMAIN UpperToLower \cup {UpperToLower[c] : c \in DOMAIN UpperToLower}
                        \cup Range(Digits) \cup {"_"}

Whitespace == {" ", "\t", "\n"}

\* str.lower()
lower(s) ==
    [i \in 1..Len(s) |-> IF s[i] \in DOMAIN UpperToLower THEN UpperToLower[s[i]] ELSE s[i]]

RECURSIVE lstrip(_)
lstrip(s) == IF s # <<>> /\ Head(s) \in Whitespace THEN lstrip(Tail(s)) ELSE s

RECURSIVE rstrip(_)
rstrip(s) ==
    IF s # <<>> /\ s[Len(s)] \in Whitespace THEN rstrip(SubSeq(s, 1, Len(s) - 1)) ELSE s

\* str.strip()
strip(s) == rstrip(lstrip(s))

RECURSIVE NatStr(_)
NatStr(n) == IF n < 10 THEN <<Digits[n + 1]>> ELSE NatStr(n \div 10) \o <<Digits[(n % 10) + 1]>>

\* str() of a cell, as astype(str) applies it to every cell of the column.
astype_str(v) ==
    CASE v.t = "str" -> v.s
      [] v.t = "nan" -> <<"n", "a", "n">>
      [] v.t = "bool" -> IF v.b THEN <<"T", "r", "u", "e">> ELSE <<"F", "a", "l", "s", "e">>
      [] v.t = "int" -> IF v.n < 0 THEN <<"-">> \o NatStr(-v.n) ELSE NatStr(v.n)
      [] v.t = "float" ->
            LET a == IF v.n < 0 THEN -v.n ELSE v.n
            IN (IF v.n < 0 THEN <<"-">> ELSE <<>>) \o NatStr(a \div 10) \o <<".">> \o NatStr(a % 10)

\* astype(int) of a float given in tenths: truncation toward zero.
astype_int(v) ==
    CASE v.t = "int" -> v.n
      [] v.t = "float" -> IF v.n < 0 THEN -((-v.n) \div 10) ELSE v.n \div 10
      [] OTHER -> 0

IsWordAt(s, i) == i \in 1..Len(s) /\ s[i] \in WordChars

\* \b between the characters i-1 and i.
Boundary(s, i) == IsWordAt(s, i - 1) # IsWordAt(s, i)

MatchAt(s, i, lit) == i + Len(lit) - 1 <= Len(s) /\ SubSeq(s, i, i + Len(lit) - 1) = lit

\* re.search(r"\bthrough[- ]?ball\b", s)
contains_throughball(s) ==
    \E i \in 1..Len(s) : \E sep \in {0, 1} :
        /\ Boundary(s, i)
        /\ MatchAt(s, i, <<"t", "h", "r", "o", "u", "g", "h">>)
        /\ sep = 1 => (i + 7 <= Len(s) /\ s[i + 7] \in {"-", " "})
        /\ MatchAt(s, i + 7 + sep, <<"b", "a", "l", "l">>)
        /\ Boundary(s, i + 11 + sep)

\* The texts the flag branch accepts.
truthy ==
    {<<"t", "r", "u", "e">>, <<"1">>, <<"y", "e", "s">>, <<"y">>, <<"t">>}

-----------------------------------------------------------------------------
(* PassMetricsCore: src/src/metrics/passes_core.py                         *)

\* The flag branch of _is_throughball_series for one cell of a column of the
\* given dtype.
tb_flag(dtype, v) ==
    IF dtype = "bool" THEN v.b
    ELSE IF dtype \in {"int64", "float64"} THEN astype_int(v) # 0
    ELSE lower(strip(astype_str(v))) \in truthy

\* The technique branch for one cell.
tb_tech(v) == contains_throughball(strip(lower(astype_str(v))))

\* The detector with the technique branch dropped.
is_throughball_series_flag_only(df) ==
    IF IsEmpty(df) THEN ConstSeries(df, FALSE)
    ELSE [l \in Labels(df) |->
            /\ "pass_through_ball" \in df.cols
            /\ tb_flag(df.dtypes["pass_through_ball"], df.row[l]["pass_through_ball"])]

\* PassMetricsCore._is_throughball_series
is_throughball_series(df) ==
    IF IsEmpty(df) THEN ConstSeries(df, FALSE)
    ELSE [l \in Labels(df) |->
            \/ "pass_through_ball" \in df.cols
               /\ tb_flag(df.dtypes["pass_through_ball"], df.row[l]["pass_through_ball"])
            \/ "pass_technique" \in df.cols
               /\ tb_tech(df.row[l]["pass_technique"])]

\* PassMetricsCore.passing_percentage
passing_percentage(self, df, player) == success_rate(self, ByPlayer(df, player), <<>>)

\* BaseMetricSet.mask_open_play (the tables carry no play_pattern column)
mask_open_play(df) ==
    IF "pass_type" \in df.cols
    THEN [l \in Labels(df) |-> df.row[l]["pass_type"] \notin {"Corner", "Free Kick", "Throw-in"}]
    ELSE ConstSeries(df, TRUE)

\* PassMetricsCore.open_play_passes
open_play_passes(df, player) ==
    LET sub == ByPlayer(df, player) IN attempts(sub, <<Mask(mask_open_play(sub))>>)

\* PassMetricsCore.throughballs_attempted
throughballs_attempted(df, player) ==
    LET sub == ByPlayer(df, player) IN attempts(sub, <<Mask(is_throughball_series(sub))>>)

\* The cell of a numeric column, NaN when the table lacks the column.
Coord(df, l, c) == IF c \in df.cols THEN df.row[l][c] ELSE NaN

\* BaseMetricSet.pass_angle_series: arctan2(dy, dx) kept as the vector it is
\* the angle of; NaN when a coordinate or a coordinate column is missing.
pass_angle_series(df) ==
    [l \in Labels(df) |->
        IF /\ {"x", "y", "pass_end_x", "pass_end_y"} \subseteq df.cols
           /\ \A c \in {"x", "y", "pass_end_x", "pass_end_y"} : IsNum(df.row[l][c])
        THEN [nan |-> FALSE,
              dx |-> Val(df.row[l]["pass_end_x"]) - Val(df.row[l]["x"]),
              dy |-> Val(df.row[l]["pass_end_y"]) - Val(df.row[l]["y"])]
        ELSE [nan |-> TRUE, dx |-> 0, dy |-> 0]]

\* theta.notna()
notna(theta) == ~theta.nan

\* -pi/6 <= theta <= pi/6: the vector points within 30 degrees of the +x axis,
\* |dy| <= dx * tan(pi/6), i.e. 3 dy^2 <= dx^2 with dx > 0; arctan2(0, 0) is 0.
within_pi_6(theta) ==
    /\ ~theta.nan
    /\ \/ theta.dx > 0 /\ 3 * theta.dy * theta.dy <= theta.dx * theta.dx
       \/ theta.dx = 0 /\ theta.dy = 0

\* theta >= 5pi/6 or theta <= -5pi/6: within 30 degrees of the -x axis.
beyond_5pi_6(theta) ==
    /\ ~theta.nan
    /\ theta.dx < 0
    /\ 3 * theta.dy * theta.dy <= theta.dx * theta.dx

\* BaseMetricSet.final_third_series: x > 80
final_third_series(df, xcol) ==
    [l \in Labels(df) |-> IsNum(Coord(df, l, xcol)) /\ Val(Coord(df, l, xcol)) > 80]

\* The largest number of a set of cells, NaN when it holds none.
SeriesMax(cells) ==
    LET nums == {Val(v) : v \in {c \in cells : IsNum(c)}}
    IN IF nums = {} THEN NaN ELSE Num(CHOOSE n \in nums : \A m \in nums : m <= n)

\* PassMetricsCore._third_bounds: (t1, t2) = (max_x / 3, 2 max_x / 3), returned
\* here as (3 t1, 3 t2) so that the bounds stay integers.
third_bounds(df, xcol) ==
    IF xcol \notin df.cols \/ IsEmpty(df) THEN <<120, 240>>
    ELSE LET m == SeriesMax({df.row[l][xcol] : l \in Labels(df)})
             max_x == IF IsNum(m) /\ Val(m) > 0 THEN Val(m) ELSE 120
         IN <<max_x, 2 * max_x>>

\* _zone_series with the first boundary in no zone: M3 is t1 < x < t2.
zone_series_open(df, xcol, zone) ==
    IF IsEmpty(df) \/ xcol \notin df.cols THEN ConstSeries(df, FALSE)
    ELSE LET t == third_bounds(df, xcol)
         IN [l \in Labels(df) |->
                LET x == df.row[l][xcol]
                IN /\ IsNum(x)
                   /\ CASE zone = "D3" -> 3 * Val(x) < t[1]
                        [] zone = "M3" -> 3 * Val(x) > t[1] /\ 3 * Val(x) < t[2]
                        [] zone = "F3" -> 3 * Val(x) >= t[2]
                        [] OTHER -> FALSE]

\* PassMetricsCore._zone_series
zone_series(df, xcol, zone) ==
    IF IsEmpty(df) \/ xcol \notin df.cols THEN ConstSeries(df, FALSE)
    ELSE LET t == third_bounds(df, xcol)
         IN [l \in Labels(df) |->
                LET x == df.row[l][xcol]
                IN /\ IsNum(x)
                   /\ CASE zone = "D3" -> 3 * Val(x) < t[1]
                        [] zone = "M3" -> 3 * Val(x) >= t[1] /\ 3 * Val(x) < t[2]
                        [] zone = "F3" -> 3 * Val(x) >= t[2]
                        [] OTHER -> FALSE]

\* The four masks with sideways taken as everything neither forward nor
\* backward, the denominator forgotten.
direction_masks_by_zone_loose(df, zone) ==
    LET theta == pass_angle_series(df)
        start_zone == zone_series(df, "x", zone)
        end_zone == zone_series(df, "pass_end_x", zone)
        denom == [l \in Labels(df) |-> notna(theta[l]) /\ (start_zone[l] \/ end_zone[l])]
        forward == [l \in Labels(df) |-> denom[l] /\ within_pi_6(theta[l])]
        backward == [l \in Labels(df) |-> denom[l] /\ beyond_5pi_6(theta[l])]
        sideways == [l \in Labels(df) |-> ~(forward[l] \/ backward[l])]
    IN [denom |-> denom, forward |-> forward, sideways |-> sideways, backward |-> backward]

\* PassMetricsCore._direction_masks_by_zone
direction_masks_by_zone(df, zone) ==
    LET theta == pass_angle_series(df)
        start_zone == zone_series(df, "x", zone)
        end_zone == zone_series(df, "pass_end_x", zone)
        denom == [l \in Labels(df) |-> notna(theta[l]) /\ (start_zone[l] \/ end_zone[l])]
        forward == [l \in Labels(df) |-> denom[l] /\ within_pi_6(theta[l])]
        backward == [l \in Labels(df) |-> denom[l] /\ beyond_5pi_6(theta[l])]
        sideways == [l \in Labels(df) |-> denom[l] /\ ~(forward[l] \/ backward[l])]
    IN [denom |-> denom, forward |-> forward, sideways |-> sideways, backward |-> backward]

\* PassMetricsCore._direction_masks
direction_masks(df, final_third) ==
    LET theta == pass_angle_series(df)
        in_f3 == final_third_series(df, "x")
        end_f3 == final_third_series(df, "pass_end_x")
        denom == [l \in Labels(df) |->
                    notna(theta[l]) /\ (final_third => (in_f3[l] \/ end_f3[l]))]
        forward == [l \in Labels(df) |-> denom[l] /\ within_pi_6(theta[l])]
        backward == [l \in Labels(df) |-> denom[l] /\ beyond_5pi_6(theta[l])]
        sideways == [l \in Labels(df) |-> denom[l] /\ ~(forward[l] \/ backward[l])]
    IN [denom |-> denom, forward |-> forward, sideways |-> sideways, backward |-> backward]

\* d3_/m3_/f3_pass_attempts and their _forward_, _sideways_ and _backward_
\* variants: twelve methods that differ in the zone and the mask they count.
zone_pass_attempts(df, player, zone, bucket) ==
    LET sub == ByPlayer(df, player)
    IN IF IsEmpty(sub) THEN 0 ELSE CountTrue(direction_masks_by_zone(sub, zone)[bucket])

\* pass_forward_/pass_sideways_/pass_backward_percentage
pass_direction_percentage(df, player, bucket) ==
    LET sub == ByPlayer(df, player)
        m == direction_masks(sub, FALSE)
        att == CountTrue(m.denom)
    IN IF att = 0 THEN Zero ELSE Frac(CountTrue(m[bucket]), att)

\* PassMetricsCore.DEFAULT_MATCH_MINUTES
DEFAULT_MATCH_MINUTES == 90

\* A minutes_map argument: None, or a dict from keys to minutes.
NoMap == [none |-> TRUE, d |-> <<>>]

Dict(d) == [none |-> FALSE, d |-> d]

\* The fallback with 90 minutes for every pass row of the player.
fallback_minutes_map_per_row(df) ==
    IF IsEmpty(df) \/ "player" \notin df.cols THEN <<>>
    ELSE [k \in {df.row[l]["player"] : l \in Labels(df)} \ {Null} |->
            Cardinality({l \in Labels(df) : df.row[l]["player"] = k}) * DEFAULT_MATCH_MINUTES]

\* PassMetricsCore._fallback_minutes_map with key_col = "player": 90 minutes
\* for every distinct match the player has a pass in.
fallback_minutes_map(df) ==
    IF IsEmpty(df) \/ "player" \notin df.cols THEN <<>>
    ELSE IF "match_id" \notin df.cols
    THEN [k \in {df.row[l]["player"] : l \in Labels(df)} \ {Null} |-> DEFAULT_MATCH_MINUTES]
    ELSE LET pairs == {l \in Labels(df) :
                          df.row[l]["player"] # Null /\ df.row[l]["match_id"] # NaN}
         IN [k \in {df.row[l]["player"] : l \in pairs} |->
                Cardinality({df.row[l]["match_id"] :
                                l \in {m \in pairs : df.row[m]["player"] = k}})
                * DEFAULT_MATCH_MINUTES]

\* PassMetricsCore._resolve_minutes_map
resolve_minutes_map(df, minutes_map) ==
    IF ~minutes_map.none THEN minutes_map.d ELSE fallback_minutes_map(df)

\* dict.get(key, default)
get(d, key, default) == IF key \in DOMAIN d THEN d[key] ELSE default

\* PassMetricsCore._per90: a missing or non-positive entry is read as 90 minutes.
per90(self, value, key) ==
    LET mins == get(self.minutes_map, key, DEFAULT_MATCH_MINUTES)
    IN Frac(value * 90, IF mins <= 0 THEN DEFAULT_MATCH_MINUTES ELSE mins)

\* BaseMetricSet.minutes_for
minutes_for(self, player) == IF player = Null THEN 0 ELSE get(self.minutes_map, player, 0)

\* BaseMetricSet.per_90(value, player), the definition the class ends up with.
per_90(self, value, player) ==
    LET mins == minutes_for(self, player)
    IN IF mins <= 0 THEN Zero ELSE Frac(value * 90, mins)

\* PassMetricsCore.throughballs_attempted_per90
throughballs_attempted_per90(self, df, player) ==
    per90(self, throughballs_attempted(df, player), player)

\* A cell that holds text where a number is expected.
NotANumber == <<"n", "/", "a">>

\* pd.to_numeric(cell, errors="coerce"): what is not a number becomes NaN.
to_numeric(v) == IF IsNum(v) THEN v ELSE NaN

\* in_box_series with the x boundary left out: x > 102.
in_box_series_open(df, x_col, y_col) ==
    IF x_col \notin df.cols \/ y_col \notin df.cols THEN ConstSeries(df, FALSE)
    ELSE [l \in Labels(df) |->
            LET x == to_numeric(df.row[l][x_col])
                y == to_numeric(df.row[l][y_col])
            IN /\ IsNum(x) /\ IsNum(y)
               /\ Val(x) > 102 /\ Val(y) >= 18 /\ Val(y) <= 62]

\* BaseMetricSet.in_box_series: a comparison with NaN is False.
in_box_series(df, x_col, y_col) ==
    IF x_col \notin df.cols \/ y_col \notin df.cols THEN ConstSeries(df, FALSE)
    ELSE [l \in Labels(df) |->
            LET x == to_numeric(df.row[l][x_col])
                y == to_numeric(df.row[l][y_col])
            IN /\ IsNum(x) /\ IsNum(y)
               /\ Val(x) >= 102 /\ Val(y) >= 18 /\ Val(y) <= 62]

\* PassMetricsCore.passes_into_box_attempted
passes_into_box_attempted(df, player, open_play) ==
    LET sub == ByPlayer(df, player)
        end_in_box == in_box_series(sub, "pass_end_x", "pass_end_y")
    IN IF IsEmpty(sub) THEN 0
       ELSE attempts(sub, <<Mask(end_in_box)>>
                          \o (IF open_play THEN <<Mask(mask_open_play(sub))>> ELSE <<>>))

\* PassMetricsCore.passes_into_box_completed
passes_into_box_completed(self, df, player, open_play) ==
    LET sub == ByPlayer(df, player)
        end_in_box == in_box_series(sub, "pass_end_x", "pass_end_y")
        comp == is_success(self, sub)
    IN IF IsEmpty(sub) THEN 0
       ELSE attempts(sub, <<Mask(end_in_box), Mask(comp)>>
                          \o (IF open_play THEN <<Mask(mask_open_play(sub))>> ELSE <<>>))

\* passes_inside_box_attempted with the end point not looked at.
passes_inside_box_attempted_start_only(df, player) ==
    LET sub == ByPlayer(df, player)
        start_in == in_box_series(sub, "x", "y")
    IN IF IsEmpty(sub) THEN 0 ELSE attempts(sub, <<Mask(start_in)>>)

\* PassMetricsCore.passes_inside_box_attempted
passes_inside_box_attempted(df, player) ==
    LET sub == ByPlayer(df, player)
        start_in == in_box_series(sub, "x", "y")
        end_in == in_box_series(sub, "pass_end_x", "pass_end_y")
    IN IF IsEmpty(sub) THEN 0 ELSE attempts(sub, <<Mask(start_in), Mask(end_in)>>)

\* PassMetricsCore.passes_inside_box_completed
passes_inside_box_completed(self, df, player) ==
    LET sub == ByPlayer(df, player)
        start_in == in_box_series(sub, "x", "y")
        end_in == in_box_series(sub, "pass_end_x", "pass_end_y")
        comp == is_success(self, sub)
    IN IF IsEmpty(sub) THEN 0
       ELSE attempts(sub, <<Mask(start_in), Mask(end_in), Mask(comp)>>)

\* float("nan") as the result of a float computation.
FNaN == <<0, 0>>

\* The float n / d (d > 0) of either sign, in lowest terms.
FracS(n, d) == IF n < 0 THEN <<0 - Frac(0 - n, d)[1], Frac(0 - n, d)[2]>> ELSE Frac(n, d)

\* a - b on floats; NaN propagates.
fsub(a, b) ==
    IF a = FNaN \/ b = FNaN THEN FNaN
    ELSE FracS(a[1] * b[2] - b[1] * a[2], a[2] * b[2])

\* The sum of the numbers column c holds at the labels ls.
RECURSIVE SumAt(_, _, _)
SumAt(df, c, ls) ==
    IF ls = {} THEN 0
    ELSE LET l == CHOOSE k \in ls : TRUE
         IN Val(df.row[l][c]) + SumAt(df, c, ls \ {l})

\* BaseMetricSet.mean_of: Series.mean() skips NaN and is NaN when nothing is left.
mean_of(df, c, masks) ==
    LET sub == where(df, masks)
        nums == {l \in Labels(sub) : IsNum(to_numeric(sub.row[l][c]))}
    IN IF IsEmpty(sub) \/ c \notin sub.cols THEN Zero
       ELSE IF nums = {} THEN FNaN
       ELSE FracS(SumAt(sub, c, nums), Cardinality(nums))

\* BaseMetricSet.mask_pressured: fillna(False).astype(bool)
mask_pressured(df) ==
    IF "under_pressure" \in df.cols
    THEN [l \in Labels(df) |->
            df.row[l]["under_pressure"].t = "bool" /\ df.row[l]["under_pressure"].b]
    ELSE ConstSeries(df, FALSE)

\* df["pass_length"] >= min_len: a comparison with NaN is False.
ge_min_len(df, min_len) ==
    [l \in Labels(df) |->
        IsNum(df.row[l]["pass_length"]) /\ Val(df.row[l]["pass_length"]) >= min_len]

\* (df["pass_length"] >= min_len) if "pass_length" in df.columns else None
long_mask(df, min_len) ==
    IF "pass_length" \in df.cols THEN Mask(ge_min_len(df, min_len)) ELSE NoMask

\* PassMetricsCore.long_balls
long_balls(self, df, player, min_len) ==
    LET sub == ByPlayer(df, player)
    IN attempts(sub, <<long_mask(sub, min_len), Mask(is_success(self, sub))>>)

\* PassMetricsCore.long_ball_percentage
long_ball_percentage(self, df, player, min_len) ==
    LET sub == ByPlayer(df, player)
    IN success_rate(self, sub, <<long_mask(sub, min_len)>>)

\* passes_pressured_percentage with every pressured pass in the numerator,
\* completed or not.
passes_pressured_percentage_of_attempts(self, df, player) ==
    LET sub == ByPlayer(df, player)
        comp == is_success(self, sub)
        prs == mask_pressured(sub)
        completed_total == CountTrue(comp)
    IN IF IsEmpty(sub) \/ "under_pressure" \notin sub.cols THEN Zero
       ELSE IF completed_total = 0 THEN Zero
       ELSE Frac(CountTrue(prs), completed_total)

\* PassMetricsCore.passes_pressured_percentage
passes_pressured_percentage(self, df, player) ==
    LET sub == ByPlayer(df, player)
        comp == is_success(self, sub)
        prs == mask_pressured(sub)
        completed_total == CountTrue(comp)
    IN IF IsEmpty(sub) \/ "under_pressure" \notin sub.cols THEN Zero
       ELSE IF completed_total = 0 THEN Zero
       ELSE Frac(CountTrue([l \in Labels(sub) |-> comp[l] /\ prs[l]]), completed_total)

\* PassMetricsCore.pressured_pass_percentage
pressured_pass_percentage(self, df, player) ==
    LET sub == ByPlayer(df, player)
        prs == mask_pressured(sub)
        comp == is_success(self, sub)
        pressured_attempts == CountTrue(prs)
    IN IF IsEmpty(sub) \/ "under_pressure" \notin sub.cols THEN Zero
       ELSE IF pressured_attempts = 0 THEN Zero
       ELSE Frac(CountTrue([l \in Labels(sub) |-> prs[l] /\ comp[l]]), pressured_attempts)

\* PassMetricsCore.pressured_pass_length
pressured_pass_length(df, player) ==
    LET sub == ByPlayer(df, player)
    IN IF IsEmpty(sub) \/ "under_pressure" \notin sub.cols THEN Zero
       ELSE mean_of(sub, "pass_length", <<Mask(mask_pressured(sub))>>)

\* PassMetricsCore.successful_pressured_pass_length
successful_pressured_pass_length(self, df, player) ==
    LET sub == ByPlayer(df, player)
    IN IF IsEmpty(sub) \/ "under_pressure" \notin sub.cols THEN Zero
       ELSE mean_of(sub, "pass_length",
                    <<Mask(mask_pressured(sub)), Mask(is_success(self, sub))>>)

\* PassMetricsCore.pressured_pass_length_difference
pressured_pass_length_difference(df, player) ==
    LET sub == ByPlayer(df, player)
    IN IF IsEmpty(sub) \/ "under_pressure" \notin sub.cols THEN Zero
       ELSE fsub(mean_of(sub, "pass_length", <<Mask(mask_pressured(sub))>>),
                 mean_of(sub, "pass_length", <<>>))

\* PassMetricsCore.pressured_pass_percent_difference
pressured_pass_percent_difference(self, df, player) ==
    fsub(pressured_pass_percentage(self, df, player), passing_percentage(self, df, player))

\* The grouping keys of the tables, in the order groupby(sort=True) puts them.
KeyOrder == <<"P1", "P2", "P3">>

\* DataFrame.groupby(c).size(): one entry per key that is not null, the keys
\* sorted, whatever the order of the rows.
groupby_size(df, c) ==
    LET present == {df.row[l][c] : l \in Labels(df)} \ {Null}
        keys == SelectSeq(KeyOrder, LAMBDA k : k \in present)
    IN [i \in 1..Len(keys) |->
            [key |-> keys[i],
             size |-> Cardinality({l \in Labels(df) : df.row[l][c] = keys[i]})]]

\* Series.sort_values(ascending=False) with the default kind="quicksort",
\* which is not stable: every arrangement with the sizes in descending order.
sort_values_descending(s) ==
    {[i \in 1..Len(s) |-> s[p[i]]] :
        p \in {q \in [1..Len(s) -> 1..Len(s)] :
                 /\ \A i, j \in 1..Len(s) : i # j => q[i] # q[j]
                 /\ \A i, j \in 1..Len(s) : i < j => s[q[i]].size >= s[q[j]].size}}

\* Series.head(n)
head(s, n) == SubSeq(s, 1, Min(n, Len(s)))

\* A table of group keys and counts: reset_index(name=value_name)
CountFrame(group_column, value_name, rows) ==
    [cols |-> <<group_column, value_name>>, rows |-> rows]

\* BaseMetricSet.top_n: the tables the call may return.
top_n(data, group_column, n, value_name) ==
    IF IsEmpty(data) \/ group_column \notin data.cols
    THEN {CountFrame(group_column, value_name, <<>>)}
    ELSE {CountFrame(group_column, value_name, head(s, n)) :
            s \in sort_values_descending(groupby_size(data, group_column))}

\* BaseMetricSet.top_by_bool with true_value=True: the tables the call may
\* return.
top_by_bool(data, flag_column, group_column, n, value_name) ==
    IF IsEmpty(data) \/ flag_column \notin data.cols \/ group_column \notin data.cols
    THEN {CountFrame(group_column, value_name, <<>>)}
    ELSE LET sub == Select(data, ColumnEquals(data, flag_column, VBool(TRUE)))
         IN IF IsEmpty(sub) THEN {CountFrame(group_column, value_name, <<>>)}
            ELSE {CountFrame(group_column, value_name, head(s, n)) :
                    s \in sort_values_descending(groupby_size(sub, group_column))}

\* d3_/m3_/f3_pass_forward_/sideways_/backward_percentage: nine methods. The
\* d3_ and m3_ methods take their masks from _direction_masks_by_zone, the
\* f3_ methods from _direction_masks(df, final_third=True).
zone_pass_percentage(df, player, zone, bucket) ==
    LET sub == ByPlayer(df, player)
        m == IF zone = "F3" THEN direction_masks(sub, TRUE)
             ELSE direction_masks_by_zone(sub, zone)
        att == CountTrue(m.denom)
    IN IF zone # "F3" /\ IsEmpty(sub) THEN Zero
       ELSE IF att = 0 THEN Zero ELSE Frac(CountTrue(m[bucket]), att)

\* ~mask
invert(mask) == [l \in DOMAIN mask |-> ~mask[l]]

\* PassMetricsCore.pass_deep_progressions_attempted
pass_deep_progressions_attempted(df, player, open_play) ==
    LET sub == ByPlayer(df, player)
        from_buildup == invert(zone_series(sub, "x", "F3"))
        into_f3 == zone_series(sub, "pass_end_x", "F3")
    IN IF IsEmpty(sub) THEN 0
       ELSE attempts(sub, <<Mask(from_buildup), Mask(into_f3)>>
                          \o (IF open_play THEN <<Mask(mask_open_play(sub))>> ELSE <<>>))

\* PassMetricsCore.pass_deep_progressions
pass_deep_progressions(self, df, player, open_play) ==
    LET sub == ByPlayer(df, player)
        from_buildup == invert(zone_series(sub, "x", "F3"))
        into_f3 == zone_series(sub, "pass_end_x", "F3")
        comp == is_success(self, sub)
    IN IF IsEmpty(sub) THEN 0
       ELSE attempts(sub, <<Mask(from_buildup), Mask(into_f3), Mask(comp)>>
                          \o (IF open_play THEN <<Mask(mask_open_play(sub))>> ELSE <<>>))

\* PassMetricsCore.pass_deep_progressions_completion_percentage
pass_deep_progressions_completion_percentage(self, df, player, open_play) ==
    LET att == pass_deep_progressions_attempted(df, player, open_play)
    IN IF att = 0 THEN Zero
       ELSE Frac(pass_deep_progressions(self, df, player, open_play), att)

\* BaseMetricSet.sum_of: Series.sum() skips NaN and is 0.0 when nothing is left.
sum_of(df, c, masks) ==
    LET sub == where(df, masks)
        nums == {l \in Labels(sub) : IsNum(to_numeric(sub.row[l][c]))}
    IN IF IsEmpty(sub) \/ c \notin sub.cols THEN Zero
       ELSE FracS(SumAt(sub, c, nums), 1)

\* PassMetricsCore.pass_length
pass_length(df, player) == mean_of(ByPlayer(df, player), "pass_length", <<>>)

\* PassMetricsCore.successful_pass_length
successful_pass_length(self, df, player) ==
    LET sub == ByPlayer(df, player)
    IN mean_of(sub, "pass_length", <<Mask(is_success(self, sub))>>)

\* PassMetricsCore.throughballs_completion_percentage
throughballs_completion_percentage(self, df, player) ==
    LET sub == ByPlayer(df, player)
    IN success_rate(self, sub, <<Mask(is_throughball_series(sub))>>)

\* PassMetricsCore.passes_into_box_completion_percentage
passes_into_box_completion_percentage(self, df, player, open_play) ==
    LET att == passes_into_box_attempted(df, player, open_play)
    IN IF att = 0 THEN Zero
       ELSE Frac(passes_into_box_completed(self, df, player, open_play), att)

\* PassMetricsCore.passes_inside_box_completion_percentage
passes_inside_box_completion_percentage(self, df, player) ==
    LET att == passes_inside_box_attempted(df, player)
    IN IF att = 0 THEN Zero
       ELSE Frac(passes_inside_box_completed(self, df, player), att)

\* BaseMetricSet.set_minutes_map: self._minutes_map = minutes or {}
set_minutes_map(self, m) == [self EXCEPT !.minutes_map = m]

\* Whether "minutes or {}" is the argument itself: a non-empty dict is truthy
\* and is stored as the object it is; an empty one is replaced by a new {}.
stores_argument(m) == m # <<>>

-----------------------------------------------------------------------------
(* Scope wrappers: src/src/metrics/{competition,team,player,match}/passes.py *)
(* and src/src/metrics/shared/filters.py                                   *)

\* filter_by_team
filter_by_team(df, team) == Select(df, ColumnEquals(df, "team", team))

\* filter_by_player with the filter dropped: every row is kept.
filter_by_player_all(df, player) == df

\* filter_by_player
filter_by_player(df, player) == Select(df, ColumnEquals(df, "player", player))

\* filter_by_match for a numeric key (the tables carry match_id, no match_name)
filter_by_match(df, match_key) == Select(df, ColumnEquals(df, "match_id", match_key))

\* The attributes each class body defines, among those the modelled methods
\* look up. Every class has BaseMetricSet as its only base.
Defines ==
    "BaseMetricSet" :> {"_is_success", "_is_completed", "attempts", "success_rate",
                        "mask_open_play"}
    @@ "PassMetricsCore" :> {"_is_throughball_series", "passing_percentage",
                             "open_play_passes", "throughballs_attempted"}
    @@ "CompetitionPassMetrics" :> {"_is_completed", "_is_set_piece", "passing_percentage",
                                    "pass_success_rate", "open_play_passes",
                                    "throughballs_attempted"}
    @@ "TeamPassMetrics" :> {"passing_percentage", "pass_success_rate", "open_play_passes",
                             "throughballs_attempted"}
    @@ "PlayerPassMetrics" :> {"passing_percentage", "pass_success_rate", "open_play_passes",
                               "throughballs_attempted"}
    @@ "MatchPassMetrics" :> {"pass_success_rate"}

\* Attribute lookup on an instance of cls: the class, then BaseMetricSet.
hasattr(cls, name) == name \in Defines[cls] \cup Defines["BaseMetricSet"]

\* What a call gives back: a value, or the exception it raised.
Returned(v) == [raised |-> Null, value |-> v]

Raised(e) == [raised |-> e, value |-> 0]

\* passing_percentage of CompetitionPassMetrics, TeamPassMetrics and
\* PlayerPassMetrics (the last takes no player argument).
wrapper_passing_percentage(df, player) ==
    LET sub == ByPlayer(df, player)
        attempted == Len(sub.index)
        completed == IF "pass_outcome" \in sub.cols
                     THEN Cardinality({l \in Labels(sub) : sub.row[l]["pass_outcome"] = Null})
                     ELSE 0
    IN IF IsEmpty(sub) THEN Zero ELSE Frac(completed, attempted)

\* CompetitionPassMetrics._is_set_piece
is_set_piece(df) ==
    IF "pass_type" \in df.cols
    THEN [l \in Labels(df) |-> df.row[l]["pass_type"] \in {"Corner", "Free Kick", "Throw-in"}]
    ELSE ConstSeries(df, FALSE)

\* open_play_passes of a wrapper: self._is_set_piece is looked up once the
\* table is known not to be empty.
wrapper_open_play_passes(cls, df, player) ==
    LET sub == ByPlayer(df, player)
    IN IF IsEmpty(sub) THEN Returned(0)
       ELSE IF ~hasattr(cls, "_is_set_piece") THEN Raised("AttributeError")
       ELSE Returned(Cardinality({l \in Labels(sub) : ~is_set_piece(sub)[l]}))

\* throughballs_attempted of a wrapper: self._is_throughball_series is looked
\* up once the table is known not to be empty.
wrapper_throughballs_attempted(cls, df, player) ==
    LET sub == ByPlayer(df, player)
    IN IF IsEmpty(sub) THEN Returned(0)
       ELSE IF ~hasattr(cls, "_is_throughball_series") THEN Raised("AttributeError")
       ELSE Returned(CountTrue(is_throughball_series(sub)))

\* MatchPassMetrics.pass_success_rate: super().action_success_rate(player),
\* an attribute no class defines.
match_pass_success_rate(df, player) ==
    IF "action_success_rate" \notin Defines["BaseMetricSet"] THEN Raised("AttributeError")
    ELSE Returned(Zero)

\* self.<op>(player) on an instance of class self.cls whose table is df.
Invoke(self, op, df, player) ==
    IF ~hasattr(self.cls, op) THEN Raised("AttributeError")
    ELSE IF self.cls = "PassMetricsCore"
    THEN CASE op = "passing_percentage" -> Returned(passing_percentage(self, df, player))
           [] op = "open_play_passes" -> Returned(open_play_passes(df, player))
           [] op = "throughballs_attempted" -> Returned(throughballs_attempted(df, player))
    ELSE CASE op = "passing_percentage" -> Returned(wrapper_passing_percentage(df, player))
           [] op = "pass_success_rate" ->
                IF self.cls = "MatchPassMetrics" THEN match_pass_success_rate(df, player)
                ELSE Returned(wrapper_passing_percentage(df, player))
           [] op = "open_play_passes" -> wrapper_open_play_passes(self.cls, df, player)
           [] op = "throughballs_attempted" ->
                wrapper_throughballs_attempted(self.cls, df, player)

\* long_balls of CompetitionPassMetrics, TeamPassMetrics and PlayerPassMetrics
wrapper_long_balls(df, player, min_len) ==
    LET sub == ByPlayer(df, player)
        mask == ge_min_len(sub, min_len)
    IN IF "pass_length" \notin sub.cols \/ IsEmpty(sub) THEN 0
       ELSE IF "pass_outcome" \in sub.cols
       THEN CountTrue([l \in Labels(sub) |-> mask[l] /\ sub.row[l]["pass_outcome"] = Null])
       ELSE CountTrue(mask)

\* long_ball_percentage of CompetitionPassMetrics, TeamPassMetrics and
\* PlayerPassMetrics
wrapper_long_ball_percentage(df, player, min_len) ==
    LET sub == ByPlayer(df, player)
        mask == ge_min_len(sub, min_len)
        attempted == CountTrue(mask)
        completed == IF "pass_outcome" \in sub.cols
                     THEN CountTrue([l \in Labels(sub) |->
                                        mask[l] /\ sub.row[l]["pass_outcome"] = Null])
                     ELSE 0
    IN IF "pass_length" \notin sub.cols \/ IsEmpty(sub) THEN Zero
       ELSE IF attempted > 0 THEN Frac(completed, attempted) ELSE Zero

\* The table a wrapper's __init__ hands to BaseMetricSet.__init__.
scoped(cls, df, key) ==
    CASE cls = "TeamPassMetrics" -> filter_by_team(df, key)
      [] cls = "PlayerPassMetrics" -> filter_by_player(df, key)
      [] cls = "MatchPassMetrics" -> filter_by_match(df, key)
      [] OTHER -> df

-----------------------------------------------------------------------------
(* Minutes-played reconstructor: src/src/metrics/shared/minutes.py         *)

\* PERIOD_OFFSET.get(period, 0.0), in minutes.
PERIOD_OFFSET(period) ==
    CASE period = 1 -> 0
      [] period = 2 -> 45
      [] period = 3 -> 90
      [] period = 4 -> 105
      [] period = 5 -> 120
      [] OTHER -> 0

\* _abs_minute(row), in seconds: 60 * (offset + minute + second / 60).
abs_minute(row) == 60 * (PERIOD_OFFSET(row.period) + row.minute) + row.second

\* The cap of the match end, min(..., 120.0), in seconds.
MatchEndCap == 7200

\* _col(df, candidates): the first candidate that is a column, else Null.
RECURSIVE col(_, _)
col(cols, candidates) ==
    IF candidates = <<>> THEN Null
    ELSE IF Head(candidates) \in cols THEN Head(candidates)
    ELSE col(cols, Tail(candidates))

\* isinstance(p, str) and p
IsName(p) == p # Null /\ p # ""

\* dict.setdefault(k, v)
setdefault(d, k, v) == IF k \in DOMAIN d THEN d ELSE d @@ (k :> v)

\* The sort key of mdf.sort_values(by=[match_c, "period", "minute", "second"])
\* inside one match group.
KeyLeq(a, b) ==
    \/ a.period < b.period
    \/ a.period = b.period /\ a.minute < b.minute
    \/ a.period = b.period /\ a.minute = b.minute /\ a.second <= b.second

\* Insert row after every row of the sorted sequence whose key is <= its key.
RECURSIVE InsertStable(_, _)
InsertStable(sorted, row) ==
    IF sorted = <<>> THEN <<row>>
    ELSE IF KeyLeq(sorted[Len(sorted)], row) THEN Append(sorted, row)
    ELSE Append(InsertStable(SubSeq(sorted, 1, Len(sorted) - 1), row),
                sorted[Len(sorted)])

\* A stable sort (kind="mergesort") by the key.
RECURSIVE sort_values(_)
sort_values(rows) ==
    IF rows = <<>> THEN <<>>
    ELSE InsertStable(sort_values(SubSeq(rows, 1, Len(rows) - 1)), rows[Len(rows)])

\* on_time.setdefault(p, 0.0) for every non-null player of the Starting XI rows.
RECURSIVE StartersOn(_, _, _, _)
StartersOn(rows, player_c, type_c, on) ==
    IF rows = <<>> THEN on
    ELSE LET r == Head(rows)
             on1 == IF r[type_c] = "Starting XI" /\ r[player_c] # Null
                    THEN setdefault(on, r[player_c], 0) ELSE on
         IN StartersOn(Tail(rows), player_c, type_c, on1)

\* A player who goes off without having come on is taken for a starter:
\* on_time.setdefault(p, 0.0) before the off time is set.
MarkOffAsStarter(st, p, t) ==
    IF IsName(p) /\ p \notin DOMAIN st.off
    THEN [st EXCEPT !.on = setdefault(@, p, 0), !.off = @ @@ (p :> Max(0, t))]
    ELSE st

\* if p in on_time and p not in off_time: off_time[p] = max(off_time.get(p, 0.0), t_abs)
MarkOff(st, p, t) ==
    IF IsName(p) /\ p \in DOMAIN st.on /\ p \notin DOMAIN st.off
    THEN [st EXCEPT !.off = @ @@ (p :> Max(0, t))]
    ELSE st

\* A substitute credited from kickoff: on_time.setdefault(p_in, 0.0).
MarkOnFromKickoff(st, p_in, t) ==
    IF IsName(p_in) THEN [st EXCEPT !.on = setdefault(@, p_in, 0)] ELSE st

\* if isinstance(p_in, str) and p_in: on_time.setdefault(p_in, t_abs)
MarkOn(st, p_in, t) ==
    IF IsName(p_in) THEN [st EXCEPT !.on = setdefault(@, p_in, t)] ELSE st

\* One iteration of the loop over mdf_sorted.iterrows().
ProcessRow(st, row, player_c, type_c, card_c, subs_in_c) ==
    LET p == row[player_c]
        t == abs_minute(row)
        st1 == IF row[type_c] = "Substitution"
               THEN LET a == MarkOff(st, p, t)
                    IN IF subs_in_c # Null THEN MarkOn(a, row[subs_in_c], t) ELSE a
               ELSE st
    IN IF card_c # Null /\ row[card_c] # Null
          /\ row[card_c] \in {"Red Card", "Second Yellow"}
       THEN MarkOff(st1, p, t)
       ELSE st1

RECURSIVE ProcessRows(_, _, _, _, _, _)
ProcessRows(st, rows, player_c, type_c, card_c, subs_in_c) ==
    IF rows = <<>> THEN st
    ELSE ProcessRows(ProcessRow(st, Head(rows), player_c, type_c, card_c, subs_in_c),
                     Tail(rows), player_c, type_c, card_c, subs_in_c)

\* The body of the loop over the match groups: {player: played} of one match.
MatchMinutes(mdf, player_c, type_c, card_c, subs_in_c) ==
    LET on0 == StartersOn(mdf, player_c, type_c, <<>>)
        mdf_sorted == sort_values(mdf)
        st == ProcessRows([on |-> on0, off |-> <<>>], mdf_sorted,
                          player_c, type_c, card_c, subs_in_c)
        match_end == Min(abs_minute(mdf_sorted[Len(mdf_sorted)]), MatchEndCap)
    IN [p \in DOMAIN st.on |->
          LET t_off == IF p \in DOMAIN st.off THEN st.off[p] ELSE match_end
          IN Max(0, t_off - st.on[p])]

\* minutes_total[p] = minutes_total.get(p, 0.0) + played, over the match groups.
RECURSIVE SumMatches(_, _, _, _, _, _, _)
SumMatches(keys, rows, match_c, player_c, type_c, card_c, subs_in_c) ==
    IF keys = {} THEN <<>>
    ELSE LET k == CHOOSE x \in keys : TRUE
             InMatch(r) == r[match_c] = k
             one == MatchMinutes(SelectSeq(rows, InMatch), player_c, type_c, card_c, subs_in_c)
             rest == SumMatches(keys \ {k}, rows, match_c, player_c, type_c, card_c, subs_in_c)
         IN [p \in DOMAIN one \cup DOMAIN rest |->
               (IF p \in DOMAIN one THEN one[p] ELSE 0)
               + (IF p \in DOMAIN rest THEN rest[p] ELSE 0)]

\* compute without the test of the required columns: the default names are
\* used whether or not they are columns.
compute_unguarded(df) ==
    IF df.rows = <<>> THEN <<>>
    ELSE SumMatches({df.rows[i]["match_id"] : i \in 1..Len(df.rows)}, df.rows,
                    "match_id", "player", "type",
                    col(df.cols, <<"card_type", "foul_card", "foul_card_type">>),
                    col(df.cols, <<"substitution_replacement",
                                   "substitution_replacement_name", "substitution_in">>))

\* compute with one on_time and one off_time for the whole table: the rows
\* of every match are processed as one match.
compute_one_match(df) ==
    IF df.rows = <<>> THEN <<>>
    ELSE MatchMinutes(df.rows, "player", "type",
                      col(df.cols, <<"card_type", "foul_card", "foul_card_type">>),
                      col(df.cols, <<"substitution_replacement",
                                     "substitution_replacement_name", "substitution_in">>))

\* MinutesPlayedCalculator.compute(df) with no column name configured.
compute(df) ==
    IF df.rows = <<>> THEN <<>>
    ELSE LET player_c == col(df.cols, <<"player", "player_name">>)
             match_c == col(df.cols, <<"match_name", "match_id", "matchid">>)
             type_c == col(df.cols, <<"type">>)
             card_c == col(df.cols, <<"card_type", "foul_card", "foul_card_type">>)
             subs_in_c == col(df.cols, <<"substitution_replacement",
                                         "substitution_replacement_name", "substitution_in">>)
         IN IF player_c = Null \/ type_c = Null \/ match_c = Null THEN <<>>
            ELSE SumMatches({df.rows[i][match_c] : i \in 1..Len(df.rows)}, df.rows,
                            match_c, player_c, type_c, card_c, subs_in_c)

-----------------------------------------------------------------------------
(* The event tables of the minutes specification                           *)

MaxEvents == 3

MinPlayers == {"A", "B", "C"}

EventCols == {"match_id", "type", "player", "period", "minute", "second",
              "substitution_replacement", "card_type"}

\* <<period, minute, second>>, minutes counted from the start of the period:
\* first-half stoppage time (absolute minute 47), then the absolute minutes
\* 46, 60, 80 and 90 of the second half.
Clock == {<<1, 47, 0>>, <<2, 1, 0>>, <<2, 15, 0>>, <<2, 35, 0>>, <<2, 45, 0>>}

EventRow(type, player, clock, p_in, card) ==
    [match_id |-> 1, type |-> type, player |-> player,
     period |-> clock[1], minute |-> clock[2], second |-> clock[3],
     substitution_replacement |-> p_in, card_type |-> card]

StartingRow(p) == EventRow("Starting XI", p, <<1, 0, 0>>, Null, Null)

\* The events a match table is built from, apart from their clock.
EventKinds ==
    {<<"Substitution", "B", "C", Null>>, <<"Substitution", "C", "B", Null>>,
     <<"Foul Committed", "A", Null, "Red Card">>,
     <<"Bad Behaviour", "C", Null, "Second Yellow">>,
     <<"Foul Committed", "B", Null, "Yellow Card">>,
     <<"Pass", "A", Null, Null>>}

EventPool == {EventRow(k[1], k[2], c, k[3], k[4]) : k \in EventKinds, c \in Clock}

\* The Starting XI rows of the lineups, in a fixed order.
Lineups == {<<>>, <<"A", "B">>, <<"B", "C">>}

LineupRows(l) == [i \in 1..Len(l) |-> StartingRow(l[i])]

NumEvents == Cardinality({i \in 1..Len(events.rows) : events.rows[i].type # "Starting XI"})

MinInit ==
    /\ \E l \in Lineups : events = [cols |-> EventCols, rows |-> LineupRows(l)]
    /\ minutes_total = [called |-> FALSE, map |-> <<>>]

MinIdle ==
    /\ events = [cols |-> EventCols, rows |-> <<>>]
    /\ minutes_total = [called |-> FALSE, map |-> <<>>]

\* The caller appends an event to the table. Rows arrive in clock order;
\* compute sorts stably, so every sorted table its loop can see is built.
AddEvent(row) ==
    /\ ~minutes_total.called
    /\ NumEvents < MaxEvents
    /\ events.rows # <<>> => KeyLeq(events.rows[Len(events.rows)], row)
    /\ events' = [events EXCEPT !.rows = Append(@, row)]
    /\ UNCHANGED <<minutes_total, metVars>>

\* The caller runs MinutesPlayedCalculator().compute(events).
Compute ==
    /\ ~minutes_total.called
    /\ minutes_total' = [called |-> TRUE, map |-> compute(events)]
    /\ UNCHANGED <<events, metVars>>

MinNext ==
    \/ \E row \in EventPool : AddEvent(row)
    \/ Compute

InitMin == MinInit /\ MetIdle

SpecMin == InitMin /\ [][MinNext]_vars

-----------------------------------------------------------------------------
(* Claims about the minutes reconstructor                                  *)

EvRows == events.rows

SameKey(a, b) == KeyLeq(a, b) /\ KeyLeq(b, a)

\* Row i is consumed before row j: by clock, rows of one clock in table order.
Before(i, j) ==
    IF SameKey(EvRows[i], EvRows[j]) THEN i < j ELSE KeyLeq(EvRows[i], EvRows[j])

IsStarter(p) ==
    \E i \in 1..Len(EvRows) : EvRows[i].type = "Starting XI" /\ EvRows[i].player = p

\* The Substitution rows that bring p on.
SubInRows(p) ==
    {i \in 1..Len(EvRows) :
        EvRows[i].type = "Substitution" /\ EvRows[i].substitution_replacement = p}

\* The rows that take p off: p's own Substitution, Red Card or Second Yellow.
OffRows(p) ==
    {i \in 1..Len(EvRows) :
        /\ EvRows[i].player = p
        /\ \/ EvRows[i].type = "Substitution"
           \/ EvRows[i].card_type \in {"Red Card", "Second Yellow"}}

\* p goes off at row j when p went on before it.
GoesOffRows(p) ==
    {j \in OffRows(p) : IsStarter(p) \/ \E i \in SubInRows(p) : Before(i, j)}

OnCount(p) == (IF IsStarter(p) THEN 1 ELSE 0) + Cardinality(SubInRows(p))

\* Every player goes on at most once and off at most once.
OnceOnOnceOff ==
    \A p \in MinPlayers : OnCount(p) <= 1 /\ Cardinality(GoesOffRows(p)) <= 1

\* The absolute time of the match's last event, capped at 120 minutes.
LastMinute ==
    LET last == CHOOSE i \in 1..Len(EvRows) : \A j \in 1..Len(EvRows) : KeyLeq(EvRows[j], EvRows[i])
    IN Min(abs_minute(EvRows[last]), MatchEndCap)

ClaimOn(p) ==
    IF IsStarter(p) THEN 0 ELSE abs_minute(EvRows[CHOOSE i \in SubInRows(p) : TRUE])

ClaimOff(p) ==
    IF GoesOffRows(p) # {} THEN abs_minute(EvRows[CHOOSE j \in GoesOffRows(p) : TRUE])
    ELSE LastMinute

\* The match of the example: starters A and B, B replaced by C at minute 60,
\* A sent off at minute 80, last event at minute 90.
ExampleRows ==
    <<StartingRow("A"), StartingRow("B"),
      EventRow("Substitution", "B", <<2, 15, 0>>, "C", Null),
      EventRow("Foul Committed", "A", <<2, 35, 0>>, Null, "Red Card"),
      EventRow("Pass", "A", <<2, 45, 0>>, Null, Null)>>

\* C2 as stated: in a match where every player goes on at most once and off
\* at most once, compute credits each player off - on (in seconds here).
C2_OffMinusOn ==
    (minutes_total.called /\ OnceOnOnceOff) =>
        /\ DOMAIN minutes_total.map = {p \in MinPlayers : OnCount(p) = 1}
        /\ \A p \in DOMAIN minutes_total.map :
              minutes_total.map[p] = ClaimOff(p) - ClaimOn(p)

\* C2 amended: in a match where every player goes on at most once and off at
\* most once (an off event counting when the player went on before it),
\* compute credits each player max(0, off - on); an off time below the on
\* time (first-half stoppage time against the 45-minute offset of period 2)
\* credits 0, not a negative number. The example match gives A=80, B=60, C=30 minutes.
C2_ClampedOffMinusOn ==
    (minutes_total.called /\ OnceOnOnceOff) =>
        /\ DOMAIN minutes_total.map = {p \in MinPlayers : OnCount(p) = 1}
        /\ \A p \in DOMAIN minutes_total.map :
              minutes_total.map[p] = Max(0, ClaimOff(p) - ClaimOn(p))
        /\ EvRows = ExampleRows =>
              minutes_total.map = ("A" :> 4800) @@ ("B" :> 3600) @@ ("C" :> 1800)

C2_Witness ==
    /\ minutes_total.called
    /\ EvRows = ExampleRows
    /\ OnceOnOnceOff
    /\ minutes_total.map["A"] = 80 * 60
    /\ minutes_total.map["B"] = 60 * 60
    /\ minutes_total.map["C"] = 30 * 60

\* The on-field state machine of the data model: a player who is off the
\* field and comes on opens a new window; an off event closes the open one.
RefOff(st, p, t) ==
    IF p \in DOMAIN st.on /\ st.on[p] # NaN
    THEN [on |-> [st.on EXCEPT ![p] = NaN],
          total |-> [st.total EXCEPT ![p] = @ + Max(0, t - Val(st.on[p]))]]
    ELSE st

RefOn(st, p, t) ==
    IF p = Null THEN st
    ELSE IF p \notin DOMAIN st.on
    THEN [on |-> st.on @@ (p :> Num(t)), total |-> st.total @@ (p :> 0)]
    ELSE IF st.on[p] = NaN THEN [st EXCEPT !.on[p] = Num(t)]
    ELSE st

RefRow(st, row) ==
    LET t == abs_minute(row)
        a == IF row.type = "Substitution"
             THEN RefOn(RefOff(st, row.player, t), row.substitution_replacement, t)
             ELSE st
    IN IF row.card_type \in {"Red Card", "Second Yellow"} THEN RefOff(a, row.player, t) ELSE a

RECURSIVE RefRows(_, _)
RefRows(st, rows) == IF rows = <<>> THEN st ELSE RefRows(RefRow(st, Head(rows)), Tail(rows))

\* The sum of (off - on) over all of p's windows of the match.
RefMinutes ==
    LET starters == {p \in MinPlayers : IsStarter(p)}
        st0 == [on |-> [p \in starters |-> Num(0)], total |-> [p \in starters |-> 0]]
        st == RefRows(st0, sort_values(EvRows))
    IN [p \in DOMAIN st.on |->
          IF st.on[p] = NaN THEN st.total[p]
          ELSE st.total[p] + Max(0, LastMinute - Val(st.on[p]))]

\* p went off and is the incoming player of a later Substitution.
Reenters(p) == \E j \in GoesOffRows(p) : \E i \in SubInRows(p) : Before(j, i)

\* C3: a player who has gone off and comes on again in a later Substitution
\* gets a new window, and is credited the sum of (off - on) over all windows.
C3_ReentryOpensWindow ==
    minutes_total.called =>
        \A p \in MinPlayers :
            Reenters(p) => /\ p \in DOMAIN minutes_total.map
                           /\ minutes_total.map[p] = RefMinutes[p]

-----------------------------------------------------------------------------
(* The success-rate specification: BaseMetricSet(df, event_type,           *)
(* outcome_column) over a table of passes and shots, then                  *)
(* attempts / successes / success_rate(self.df, *masks).                   *)

MaxRows == 2

MaxMasks == 2

RateRows ==
    {[BaseRow EXCEPT !.type = ty, !.pass_outcome = oc] :
        ty \in {"Pass", "Shot"}, oc \in {Null, "Incomplete"}}
    \ {[BaseRow EXCEPT !.type = "Shot", !.pass_outcome = "Incomplete"]}

\* The mask arguments a caller may pass for df: None, a boolean Series over
\* df's index, or one computed over a subset that lacks label 0.
MaskArgs(df) ==
    {NoMask} \cup {Mask(f) : f \in [Labels(df) -> BOOLEAN]}
             \cup {Mask(f) : f \in [Labels(df) \ {0} -> BOOLEAN]}

MaskSeqs(df) == UNION {[1..k -> MaskArgs(df)] : k \in 0..MaxMasks}

RateInit ==
    /\ \E cols \in {PassCols, PassCols \ {"pass_outcome"}} : source = EmptyFrame(cols)
    /\ inst = NoInst
    /\ res = NoRes
    /\ minutes = NoMinutes
    /\ MinIdle

\* The caller adds a row to its table before handing it to a constructor.
AddSourceRow(r, max) ==
    /\ ~Constructed
    /\ Len(source.index) < max
    /\ source' = AppendRow(source, r)
    /\ UNCHANGED <<inst, res, minutes, minVars>>

\* BaseMetricSet(source, event_type, outcome_column)
ConstructBase(event_type, outcome_column) ==
    /\ ~Constructed
    /\ inst' = [cls |-> "BaseMetricSet", df |-> PostInitObj(source, TRUE, event_type),
                event_type |-> event_type, outcome_column |-> outcome_column,
                minutes_map |-> <<>>, key |-> Null]
    /\ UNCHANGED <<source, res, minutes, minVars>>

\* attempts, successes and success_rate of self.df under the same masks.
CallSuccessRate(masks) ==
    /\ Constructed
    /\ res' = [op |-> "success_rate", masks |-> masks,
               attempts |-> attempts(SelfDf, masks),
               successes |-> successes(inst, SelfDf, masks),
               rate |-> success_rate(inst, SelfDf, masks)]
    /\ UNCHANGED <<source, inst, minutes, minVars>>

RateNext ==
    \/ \E r \in RateRows : AddSourceRow(r, MaxRows)
    \/ \E cfg \in {<<"Pass", "pass_outcome">>, <<Null, Null>>} : ConstructBase(cfg[1], cfg[2])
    \/ \E masks \in MaskSeqs(SelfDf) : CallSuccessRate(masks)

SpecRate == RateInit /\ [][RateNext]_vars

\* The rows of self.df that every mask of the call lets through.
C1_Matching ==
    {l \in Labels(SelfDf) :
        \A k \in 1..Len(res.masks) :
            res.masks[k].none \/ (l \in DOMAIN res.masks[k].s /\ res.masks[k].s[l])}

\* The success predicate: the configured outcome column exists and is null.
C1_Succeeded(l) ==
    /\ inst.outcome_column # Null
    /\ inst.outcome_column \in SelfDf.cols
    /\ SelfDf.row[l][inst.outcome_column] = Null

\* C1: attempts counts the rows matching the AND of all masks, successes those
\* of them that satisfy the success predicate, and success_rate is
\* successes / attempts when attempts > 0 and exactly 0.0 when attempts is 0.
C1_RateIsSuccessesOverAttempts ==
    res.op = "success_rate" =>
        /\ res.attempts = Cardinality(C1_Matching)
        /\ res.successes = Cardinality({l \in C1_Matching : C1_Succeeded(l)})
        /\ res.attempts > 0 => res.rate = Frac(res.successes, res.attempts)
        /\ res.attempts = 0 => res.rate = Zero

\* Two masks together let one of two rows through, and that row succeeded.
C1_Witness ==
    /\ res.op = "success_rate"
    /\ Len(res.masks) = 2
    /\ Len(SelfDf.index) = 2
    /\ res.attempts = 1
    /\ res.rate = <<1, 1>>

-----------------------------------------------------------------------------
(* The through-ball specification: PassMetricsCore(df) over passes whose   *)
(* flag and technique cells take the encodings found in event data, then   *)
(* throughballs_attempted(player).                                         *)

Text_Yes == <<"Y", "e", "s">>

Text_y_padded == <<" ", "y", " ">>

Text_no == <<"n", "o">>

Text_ThroughBall == <<"T", "h", "r", "o", "u", "g", "h", " ", "B", "a", "l", "l">>

Text_through_ball == <<"t", "h", "r", "o", "u", "g", "h", "-", "b", "a", "l", "l">>

Text_Throughball == <<"T", "h", "r", "o", "u", "g", "h", "b", "a", "l", "l">>

Text_BreakthroughBall ==
    <<"B", "r", "e", "a", "k", "t", "h", "r", "o", "u", "g", "h", " ", "B", "a", "l", "l">>

Text_Lob == <<"L", "o", "b">>

TBFlags ==
    {VNaN, VBool(TRUE), VBool(FALSE), VInt(0), VInt(1), VInt(2), VFloat(5), VFloat(10),
     VStr(Text_Yes), VStr(Text_y_padded), VStr(Text_no)}

TBTechs ==
    {VStr(Text_ThroughBall), VStr(Text_through_ball), VStr(Text_Throughball),
     VStr(Text_BreakthroughBall), VStr(Text_Lob)}

TBRows ==
    {[BaseRow EXCEPT !.pass_through_ball = f] : f \in TBFlags}
    \cup {[BaseRow EXCEPT !.pass_technique = t] : t \in TBTechs}
    \cup {[BaseRow EXCEPT !.pass_through_ball = VBool(TRUE), !.pass_technique = VStr(Text_ThroughBall)]}

TBInit ==
    /\ \E cols \in {PassCols, PassCols \ {"pass_through_ball"}, PassCols \ {"pass_technique"}} :
            source = EmptyFrame(cols)
    /\ inst = NoInst
    /\ res = NoRes
    /\ minutes = NoMinutes
    /\ MinIdle

\* PassMetricsCore(source, minutes_map=minutes_map)
ConstructCore(minutes_map) ==
    /\ ~Constructed
    /\ LET df == PostInitObj(source, TRUE, "Pass")
       IN inst' = [cls |-> "PassMetricsCore", df |-> df,
                   event_type |-> "Pass", outcome_column |-> "pass_outcome",
                   minutes_map |-> resolve_minutes_map(df.tbl, minutes_map), key |-> Null]
    /\ UNCHANGED <<source, res, minutes, minVars>>

CallThroughballsAttempted(player) ==
    /\ Constructed
    /\ res' = [op |-> "throughballs_attempted", player |-> player,
               value |-> throughballs_attempted(SelfDf, player)]
    /\ UNCHANGED <<source, inst, minutes, minVars>>

TBNext ==
    \/ \E r \in TBRows : AddSourceRow(r, MaxRows)
    \/ ConstructCore(NoMap)
    \/ \E player \in {Null, "P1"} : CallThroughballsAttempted(player)

SpecTB == TBInit /\ [][TBNext]_vars

\* The cell of column c in row l, NaN when the table has no such column.
C10_Cell(l, c) == IF c \in SelfDf.cols THEN SelfDf.row[l][c] ELSE VNaN

\* The technique text holds the token, whatever the separator and letter case.
C10_TechniqueToken(v) == v.t = "str" /\ contains_throughball(lower(v.s))

\* Truthy as the claim words it: True, a non-zero number, or one of the texts.
C10_Truthy(v) ==
    \/ v.t = "bool" /\ v.b
    \/ v.t \in {"int", "float"} /\ v.n # 0
    \/ v.t = "str" /\ lower(strip(v.s)) \in truthy

\* Truthy as the column's dtype decides it: in a boolean column True; in a
\* numeric column a number whose integer part is not zero; in any other
\* column True, the integer 1 or one of the texts.
C10_TruthyByDtype(dtype, v) ==
    IF dtype = "bool" THEN v.b
    ELSE IF dtype \in {"int64", "float64"}
    THEN v.t \in {"int", "float"} /\ (v.n # 0 /\ (v.t = "float" => (v.n >= 10 \/ v.n <= -10)))
    ELSE \/ v.t = "bool" /\ v.b
         \/ v.t = "int" /\ v.n = 1
         \/ v.t = "str" /\ lower(strip(v.s)) \in truthy

C10_FlagDtype ==
    IF "pass_through_ball" \in SelfDf.cols THEN SelfDf.dtypes["pass_through_ball"] ELSE "object"

\* C10 as stated: throughballs_attempted counts exactly the rows whose flag is
\* truthy (True, any non-zero number, or true/1/yes/y/t in any case) or whose
\* technique text holds the token 'through ball'.
C10_FlagOrTechnique ==
    res.op = "throughballs_attempted" =>
        res.value = Cardinality({l \in Labels(SelfDf) :
                        \/ C10_Truthy(C10_Cell(l, "pass_through_ball"))
                        \/ C10_TechniqueToken(C10_Cell(l, "pass_technique"))})

\* C10 amended: throughballs_attempted counts exactly the rows whose flag is
\* truthy for the dtype of its column, or whose technique text holds the token.
C10_FlagByDtypeOrTechnique ==
    res.op = "throughballs_attempted" =>
        res.value = Cardinality({l \in Labels(SelfDf) :
                        \/ C10_TruthyByDtype(C10_FlagDtype, C10_Cell(l, "pass_through_ball"))
                        \/ C10_TechniqueToken(C10_Cell(l, "pass_technique"))})

\* One row counts by its flag alone ("Yes", no technique), another by its
\* technique text alone ("Through Ball", no flag).
C10_Witness ==
    /\ res.op = "throughballs_attempted"
    /\ res.value = 2
    /\ \E l \in Labels(SelfDf) :
            /\ C10_Cell(l, "pass_through_ball") = VStr(Text_Yes)
            /\ C10_Cell(l, "pass_technique") = VNaN
    /\ \E l \in Labels(SelfDf) :
            /\ C10_Cell(l, "pass_through_ball") = VNaN
            /\ C10_Cell(l, "pass_technique") = VStr(Text_ThroughBall)

-----------------------------------------------------------------------------
(* The per-90 specification: PassMetricsCore(df, minutes_map=...) then     *)
(* per_90(value, player) and throughballs_attempted_per90(player).         *)

P90Rows ==
    {[BaseRow EXCEPT !.player = p, !.match_id = Num(m), !.pass_through_ball = f] :
        p \in {"P1", "P2"}, m \in {1, 2}, f \in {VBool(TRUE), VNaN}}

\* The minutes_map arguments: None (the fallback), an empty dict, and dicts
\* that give P1 positive, zero or negative minutes and leave P2 out.
P90Maps == {NoMap, Dict(<<>>)} \cup {Dict("P1" :> m) : m \in {45, 0, -10}}

P90Values == {0, 3}

P90Init ==
    /\ source = EmptyFrame(PassCols)
    /\ inst = NoInst
    /\ res = NoRes
    /\ minutes = NoMinutes
    /\ MinIdle

CallPer90(value, player) ==
    /\ Constructed
    /\ res' = [op |-> "per_90", player |-> player, count |-> value,
               value |-> per_90(inst, value, player)]
    /\ UNCHANGED <<source, inst, minutes, minVars>>

CallThroughballsAttemptedPer90(player) ==
    /\ Constructed
    /\ res' = [op |-> "throughballs_attempted_per90", player |-> player,
               count |-> throughballs_attempted(SelfDf, player),
               value |-> throughballs_attempted_per90(inst, SelfDf, player)]
    /\ UNCHANGED <<source, inst, minutes, minVars>>

P90Next ==
    \/ \E r \in P90Rows : AddSourceRow(r, MaxRows)
    \/ \E minutes_map \in P90Maps : ConstructCore(minutes_map)
    \/ \E value \in P90Values, player \in {Null, "P1", "P2"} : CallPer90(value, player)
    \/ \E player \in {"P1", "P2"} : CallThroughballsAttemptedPer90(player)

SpecP90 == P90Init /\ [][P90Next]_vars

\* The player has positive minutes in the instance's minutes map.
C4_HasMinutes ==
    /\ res.player \in DOMAIN inst.minutes_map
    /\ inst.minutes_map[res.player] > 0

\* C4: every per-90 metric returns count * 90 / minutes, and 0.0 when the
\* player's minutes are zero, negative or absent from the minutes map.
C4_Per90ZeroWithoutMinutes ==
    res.op \in {"per_90", "throughballs_attempted_per90"} =>
        res.value = IF C4_HasMinutes
                    THEN Frac(res.count * 90, inst.minutes_map[res.player])
                    ELSE Zero

-----------------------------------------------------------------------------
(* The direction specification: PassMetricsCore(df) over passes with       *)
(* start and end coordinates, then the zone attempt counts and the         *)
(* whole-pitch direction shares.                                           *)

PassAt(player, x, y, ex, ey) ==
    [BaseRow EXCEPT !.player = player, !.x = x, !.y = y, !.pass_end_x = ex, !.pass_end_y = ey]

\* Forward, backward, sideways and diagonal passes in different thirds, a pass
\* whose end point is its start point, and passes with a coordinate missing.
DirRows ==
    {PassAt("P1", Num(10), Num(40), Num(30), Num(40)),
     PassAt("P1", Num(110), Num(30), Num(115), Num(32)),
     PassAt("P1", Num(100), Num(40), Num(70), Num(40)),
     PassAt("P1", Num(60), Num(40), Num(60), Num(60)),
     PassAt("P2", Num(50), Num(40), Num(60), Num(50)),
     PassAt("P1", Num(60), Num(40), Num(60), Num(40)),
     PassAt("P2", Num(60), Num(40), Num(60), Num(40)),
     PassAt("P1", NaN, Num(40), Num(60), Num(40)),
     PassAt("P2", Num(30), Num(40), NaN, NaN)}

Zones == {"D3", "M3", "F3"}

DirInit ==
    /\ \E cols \in {PassCols, PassCols \ {"pass_end_x"}} : source = EmptyFrame(cols)
    /\ inst = NoInst
    /\ res = NoRes
    /\ minutes = NoMinutes
    /\ MinIdle

\* Z_pass_attempts, Z_pass_forward_attempts, Z_pass_sideways_attempts and
\* Z_pass_backward_attempts for one zone and one player argument.
CallZoneAttempts(zone, player) ==
    /\ Constructed
    /\ res' = [op |-> "zone_attempts", zone |-> zone, player |-> player,
               denom |-> zone_pass_attempts(SelfDf, player, zone, "denom"),
               forward |-> zone_pass_attempts(SelfDf, player, zone, "forward"),
               sideways |-> zone_pass_attempts(SelfDf, player, zone, "sideways"),
               backward |-> zone_pass_attempts(SelfDf, player, zone, "backward")]
    /\ UNCHANGED <<source, inst, minutes, minVars>>

\* pass_forward_percentage, pass_sideways_percentage, pass_backward_percentage
CallDirectionPercentages(player) ==
    /\ Constructed
    /\ res' = [op |-> "direction_percentages", player |-> player,
               forward |-> pass_direction_percentage(SelfDf, player, "forward"),
               sideways |-> pass_direction_percentage(SelfDf, player, "sideways"),
               backward |-> pass_direction_percentage(SelfDf, player, "backward")]
    /\ UNCHANGED <<source, inst, minutes, minVars>>

DirNext ==
    \/ \E r \in DirRows : AddSourceRow(r, MaxRows)
    \/ ConstructCore(NoMap)
    \/ \E zone \in Zones, player \in {Null, "P1", "P2"} : CallZoneAttempts(zone, player)
    \/ \E player \in {Null, "P1", "P2"} : CallDirectionPercentages(player)

SpecDir == DirInit /\ [][DirNext]_vars

\* The rows the call's player argument selects.
C5_Rows == {l \in Labels(SelfDf) : res.player = Null \/ SelfDf.row[l]["player"] = res.player}

\* C5: for every dataset, player filter and zone, forward + sideways + backward
\* attempts equal the zone's attempts, and no pass is in two buckets.
C5_BucketsPartitionZone ==
    res.op = "zone_attempts" =>
        /\ res.forward + res.sideways + res.backward = res.denom
        /\ LET m == direction_masks_by_zone(ByPlayer(SelfDf, res.player), res.zone)
           IN \A l \in DOMAIN m.denom :
                /\ ~(m.forward[l] /\ m.sideways[l])
                /\ ~(m.forward[l] /\ m.backward[l])
                /\ ~(m.sideways[l] /\ m.backward[l])

\* Of two passes one is outside the zone's denominator and the other is in
\* it, as a sideways pass.
C5_Witness ==
    /\ res.op = "zone_attempts"
    /\ Cardinality(C5_Rows) = 2
    /\ res.denom = 1
    /\ res.sideways = 1

\* The rows of the call that have a direction in the claim's sense: all four
\* coordinates present and the end point different from the start point.
C6_Directed ==
    {l \in C5_Rows :
        /\ \A c \in {"x", "y", "pass_end_x", "pass_end_y"} : IsNum(Coord(SelfDf, l, c))
        /\ \/ Coord(SelfDf, l, "x") # Coord(SelfDf, l, "pass_end_x")
           \/ Coord(SelfDf, l, "y") # Coord(SelfDf, l, "pass_end_y")}

\* C6: a pass with a missing coordinate or of zero length is in no direction
\* denominator and in no bucket: zone counts never exceed the number of
\* directed passes, and with no directed pass every count and share is zero.
C6_OnlyDirectedPassesCount ==
    /\ res.op = "zone_attempts" =>
          /\ res.denom <= Cardinality(C6_Directed)
          /\ res.forward + res.sideways + res.backward <= Cardinality(C6_Directed)
    /\ (res.op = "direction_percentages" /\ C6_Directed = {}) =>
          /\ res.forward = Zero
          /\ res.sideways = Zero
          /\ res.backward = Zero

-----------------------------------------------------------------------------
(* The scope specification: a wrapper or the catalog is built over the     *)
(* caller's table and one of its metric methods is called.                 *)

ScopeRows ==
    {BaseRow,
     [BaseRow EXCEPT !.pass_outcome = "Incomplete"],
     [BaseRow EXCEPT !.type = "Shot"],
     [BaseRow EXCEPT !.pass_type = "Corner"],
     [BaseRow EXCEPT !.pass_through_ball = VBool(TRUE)],
     [BaseRow EXCEPT !.player = "P2", !.team = "T2"],
     [BaseRow EXCEPT !.player = "P2", !.match_id = Num(2), !.pass_outcome = "Incomplete"]}

\* The classes and scope keys a caller may construct.
Scopes ==
    {<<"CompetitionPassMetrics", Null>>, <<"TeamPassMetrics", "T1">>,
     <<"PlayerPassMetrics", "P1">>, <<"PlayerPassMetrics", "P2">>,
     <<"MatchPassMetrics", Num(1)>>}

MetricOps == {"passing_percentage", "pass_success_rate", "open_play_passes",
              "throughballs_attempted"}

ScopeInit ==
    /\ source = EmptyFrame(PassCols)
    /\ inst = NoInst
    /\ res = NoRes
    /\ minutes = NoMinutes
    /\ MinIdle

\* CompetitionPassMetrics(source), TeamPassMetrics(source, key),
\* PlayerPassMetrics(source, key) or MatchPassMetrics(source, key)
ConstructScope(cls, key) ==
    /\ ~Constructed
    /\ inst' = [cls |-> cls,
                df |-> PostInitObj(scoped(cls, source, key),
                                   cls = "CompetitionPassMetrics", "Pass"),
                event_type |-> "Pass", outcome_column |-> "pass_outcome",
                minutes_map |-> <<>>, key |-> key]
    /\ UNCHANGED <<source, res, minutes, minVars>>

\* self.<op>(player); PlayerPassMetrics methods take no player argument.
CallMetric(op, player) ==
    /\ Constructed
    /\ inst.cls = "PlayerPassMetrics" => player = Null
    /\ res' = [op |-> op, player |-> player, out |-> Invoke(inst, op, SelfDf, player)]
    /\ UNCHANGED <<source, inst, minutes, minVars>>

ScopeNext ==
    \/ \E r \in ScopeRows : AddSourceRow(r, MaxRows)
    \/ \E sc \in Scopes : ConstructScope(sc[1], sc[2])
    \/ ConstructCore(NoMap)
    \/ \E op \in MetricOps, player \in {Null, "P1", "P2"} : CallMetric(op, player)

SpecScope == ScopeInit /\ [][ScopeNext]_vars

\* The players present in the source table D.
C7_Players == {source.row[l]["player"] : l \in Labels(source)}

\* C7: for every player p present in D, CompetitionPassMetrics(D)
\* .passing_percentage(player=p) equals PlayerPassMetrics(D, p)
\* .passing_percentage(), whichever of the two was called.
C7_CompetitionEqualsPlayer ==
    res.op = "passing_percentage" =>
        /\ (inst.cls = "CompetitionPassMetrics" /\ res.player \in C7_Players) =>
              res.out = Invoke([inst EXCEPT !.cls = "PlayerPassMetrics"], "passing_percentage",
                               post_init(scoped("PlayerPassMetrics", source, res.player), "Pass"),
                               Null)
        /\ (inst.cls = "PlayerPassMetrics" /\ inst.key \in C7_Players) =>
              res.out = Invoke([inst EXCEPT !.cls = "CompetitionPassMetrics"], "passing_percentage",
                               post_init(scoped("CompetitionPassMetrics", source, Null), "Pass"),
                               inst.key)

\* D holds a shot and a completed pass of P1, and the competition wrapper
\* returned P1's share, 1.0: the shot is not among the attempts.
C7_Witness ==
    /\ res.op = "passing_percentage"
    /\ inst.cls = "CompetitionPassMetrics"
    /\ res.player = "P1"
    /\ res.out = Returned(<<1, 1>>)
    /\ \E l \in Labels(source) : source.row[l] = [BaseRow EXCEPT !.type = "Shot"]
    /\ \E l \in Labels(source) : source.row[l] = BaseRow

\* The wrapper metrics the claim names.
C8_Named ==
    \/ inst.cls = "MatchPassMetrics" /\ res.op = "pass_success_rate"
    \/ inst.cls \in {"TeamPassMetrics", "PlayerPassMetrics"} /\ res.op = "open_play_passes"
    \/ /\ inst.cls \in {"CompetitionPassMetrics", "TeamPassMetrics", "PlayerPassMetrics"}
       /\ res.op = "throughballs_attempted"

\* The catalog's name for a wrapper metric.
C8_CatalogOp == IF res.op = "pass_success_rate" THEN "passing_percentage" ELSE res.op

\* C8: over a non-empty dataset each named wrapper metric returns what
\* PassMetricsCore returns over the same rows, and does not fail.
C8_WrapperEqualsCatalog ==
    (res.op # "none" /\ C8_Named /\ ~IsEmpty(source)) =>
        res.out = Invoke([inst EXCEPT !.cls = "PassMetricsCore"], C8_CatalogOp,
                         post_init(SelfDf, "Pass"), res.player)

\* C14: over a scoped table of zero rows every scalar metric of the catalog
\* and of the scope wrappers returns 0 or 0.0 and does not raise.
C14_EmptyScopeGivesZero ==
    (res.op \in MetricOps /\ res.op \in Defines[inst.cls] /\ IsEmpty(SelfDf)) =>
        /\ res.out.raised = Null
        /\ res.out.value = IF res.op \in {"open_play_passes", "throughballs_attempted"}
                           THEN 0 ELSE Zero

-----------------------------------------------------------------------------
(* The ownership specification: as the scope specification, and the caller *)
(* keeps changing its table after the instance was built.                  *)

OwnRows ==
    {BaseRow,
     [BaseRow EXCEPT !.type = "Shot"],
     [BaseRow EXCEPT !.player = "P2", !.team = "T2", !.pass_outcome = "Incomplete"]}

\* df.loc[l] = r
SetRow(df, l, r) ==
    LET row == [df.row EXCEPT ![l] = r]
    IN [df EXCEPT !.row = row,
                  !.dtypes = [c \in DOMAIN df.dtypes |->
                                InferDtype({row[k][c] : k \in DOMAIN row})]]

OwnInit ==
    /\ source = EmptyFrame(PassCols)
    /\ inst = NoInst
    /\ res = NoRes
    /\ minutes = NoMinutes
    /\ MinIdle

\* The caller appends a row to its table after the instance was built.
AppendToSource(r) ==
    /\ Constructed
    /\ Len(source.index) < MaxRows
    /\ source' = AppendRow(source, r)
    /\ UNCHANGED <<inst, res, minutes, minVars>>

\* The caller overwrites a row of its table after the instance was built.
OverwriteSource(l, r) ==
    /\ Constructed
    /\ l \in Labels(source)
    /\ source' = SetRow(source, l, r)
    /\ UNCHANGED <<inst, res, minutes, minVars>>

OwnNext ==
    \/ \E r \in OwnRows : AddSourceRow(r, MaxRows)
    \/ \E sc \in Scopes : ConstructScope(sc[1], sc[2])
    \/ ConstructCore(NoMap)
    \/ \E op \in MetricOps, player \in {Null, "P1", "P2"} : CallMetric(op, player)
    \/ \E r \in OwnRows : AppendToSource(r)
    \/ \E l \in 0..(MaxRows - 1), r \in OwnRows : OverwriteSource(l, r)

SpecOwn == OwnInit /\ [][OwnNext]_vars

\* What the instance would return now for the arguments of its last call.
C9_Repeat == Invoke(inst, res.op, SelfDf, res.player)

\* What an instance built now over the caller's table would return.
C9_Fresh ==
    Invoke(inst, res.op, post_init(scoped(inst.cls, source, inst.key), "Pass"), res.player)

\* C9: no constructor and no metric call changes the source table, and
\* whatever happens to the source table after construction, repeating the
\* last call returns the result it returned.
C9_OwnCopy ==
    /\ [][(inst' # inst \/ res' # res) => source' = source]_vars
    /\ [](res.op # "none" => res.out = C9_Repeat)

\* The source table changed after construction so much that an instance built
\* now would answer differently, and the old instance still answers as before.
C9_Witness ==
    /\ res.op # "none"
    /\ res.out.raised = Null
    /\ res.out # C9_Fresh
    /\ res.out = C9_Repeat

-----------------------------------------------------------------------------
(* The box specification: PassMetricsCore(df) over passes that start and   *)
(* end on, inside and outside the boundaries of the Box, then              *)
(* in_box_series and the into-box and inside-box counts.                   *)

\* Passes from midfield to every side of the box boundary, passes that start
\* in the box, an incomplete pass and a pass of another player.
BoxRows ==
    {PassAt("P1", Num(50), Num(40), e[1], e[2]) :
        e \in {<<Num(102), Num(18)>>, <<Num(102), Num(62)>>, <<Num(101), Num(40)>>,
               <<Num(105), Num(17)>>, <<Num(105), Num(63)>>, <<NaN, Num(40)>>,
               <<NotANumber, Num(40)>>}}
    \cup {PassAt("P1", Num(110), Num(40), Num(102), Num(18)),
          PassAt("P1", Num(110), Num(40), Num(101), Num(40)),
          [PassAt("P1", Num(110), Num(40), Num(102), Num(62)) EXCEPT !.pass_outcome = "Incomplete"],
          [PassAt("P2", Num(50), Num(40), Num(102), Num(18)) EXCEPT !.pass_outcome = "Incomplete"]}

BoxInit ==
    /\ \E cols \in {PassCols, PassCols \ {"pass_end_y"}, PassCols \ {"x"}} :
            source = EmptyFrame(cols)
    /\ inst = NoInst
    /\ res = NoRes
    /\ minutes = NoMinutes
    /\ MinIdle

\* self.in_box_series(self.df, x_col, y_col)
CallInBoxSeries(x_col, y_col) ==
    /\ Constructed
    /\ res' = [op |-> "in_box_series", x_col |-> x_col, y_col |-> y_col,
               mask |-> in_box_series(SelfDf, x_col, y_col)]
    /\ UNCHANGED <<source, inst, minutes, minVars>>

\* passes_into_box_attempted / _completed and passes_inside_box_attempted /
\* _completed for one player argument.
CallBoxCounts(player) ==
    /\ Constructed
    /\ res' = [op |-> "box_counts", player |-> player,
               into_attempted |-> passes_into_box_attempted(SelfDf, player, FALSE),
               into_completed |-> passes_into_box_completed(inst, SelfDf, player, FALSE),
               inside_attempted |-> passes_inside_box_attempted(SelfDf, player),
               inside_completed |-> passes_inside_box_completed(inst, SelfDf, player)]
    /\ UNCHANGED <<source, inst, minutes, minVars>>

BoxNext ==
    \/ \E r \in BoxRows : AddSourceRow(r, MaxRows)
    \/ ConstructCore(NoMap)
    \/ \E xy \in {<<"x", "y">>, <<"pass_end_x", "pass_end_y">>} : CallInBoxSeries(xy[1], xy[2])
    \/ \E player \in {Null, "P1", "P2"} : CallBoxCounts(player)

SpecBox == BoxInit /\ [][BoxNext]_vars

\* The coordinate pair (x_col, y_col) of row l lies in the Box: both are
\* numbers, x is 102 or more and y is one of 18 .. 62.
C11_InBox(l, x_col, y_col) ==
    /\ {x_col, y_col} \subseteq SelfDf.cols
    /\ IsNum(SelfDf.row[l][x_col])
    /\ IsNum(SelfDf.row[l][y_col])
    /\ ~(Val(SelfDf.row[l][x_col]) < 102)
    /\ Val(SelfDf.row[l][y_col]) \in 18..62

\* C11: in_box_series is True exactly for the rows with x >= 102 and
\* 18 <= y <= 62, boundaries included, whatever the largest x of the table;
\* a missing or non-numeric coordinate or a missing column is never in the Box.
C11_BoxIsAbsolute ==
    res.op = "in_box_series" =>
        /\ DOMAIN res.mask = Labels(SelfDf)
        /\ \A l \in Labels(SelfDf) : res.mask[l] <=> C11_InBox(l, res.x_col, res.y_col)

\* The table's largest x is the boundary itself: the pass ending at (102, 18)
\* is in the Box and the pass ending at (101, 40) is not.
C11_Witness ==
    /\ res.op = "in_box_series"
    /\ res.x_col = "pass_end_x"
    /\ \E l \in Labels(SelfDf) :
            /\ SelfDf.row[l]["pass_end_x"] = Num(102)
            /\ SelfDf.row[l]["pass_end_y"] = Num(18)
            /\ res.mask[l]
    /\ \E l \in Labels(SelfDf) :
            /\ SelfDf.row[l]["pass_end_x"] = Num(101)
            /\ ~res.mask[l]
    /\ \A l \in Labels(SelfDf) : Val(SelfDf.row[l]["pass_end_x"]) <= 102

\* The rows the call's player argument selects.
C12_Rows == {l \in Labels(SelfDf) : res.player = Null \/ SelfDf.row[l]["player"] = res.player}

\* C12: into-box counts the passes that end in the Box, inside-box those that
\* start and end in it; inside-box never exceeds into-box, and a completed
\* count never exceeds its attempted count.
C12_IntoAndInsideBox ==
    res.op = "box_counts" =>
        /\ res.into_attempted =
              Cardinality({l \in C12_Rows : C11_InBox(l, "pass_end_x", "pass_end_y")})
        /\ res.inside_attempted =
              Cardinality({l \in C12_Rows : /\ C11_InBox(l, "x", "y")
                                            /\ C11_InBox(l, "pass_end_x", "pass_end_y")})
        /\ res.inside_attempted <= res.into_attempted
        /\ res.into_completed <= res.into_attempted
        /\ res.inside_completed <= res.inside_attempted

\* Two passes end in the Box, one of them starts in it and is incomplete.
C12_Witness ==
    /\ res.op = "box_counts"
    /\ res.into_attempted = 2
    /\ res.into_completed = 1
    /\ res.inside_attempted = 1
    /\ res.inside_completed = 0

-----------------------------------------------------------------------------
(* The success specification: one player's passes, complete and            *)
(* incomplete, next to another player's pass; then _is_success over the    *)
(* instance's table and passing_percentage for a player.                   *)

MaxPasses == 10

SuccRows ==
    {[BaseRow EXCEPT !.pass_outcome = oc] : oc \in {Null, "Incomplete"}}

\* The caller's table holds nothing yet, or a pass of another player.
SuccInit ==
    /\ \E cols \in {PassCols, PassCols \ {"pass_outcome"}} :
            source \in {EmptyFrame(cols),
                        AppendRow(EmptyFrame(cols),
                                  [BaseRow EXCEPT !.player = "P2", !.pass_outcome = "Out"])}
    /\ inst = NoInst
    /\ res = NoRes
    /\ minutes = NoMinutes
    /\ MinIdle

\* self._is_success(self.df)
CallIsSuccess ==
    /\ Constructed
    /\ res' = [op |-> "is_success", mask |-> is_success(inst, SelfDf)]
    /\ UNCHANGED <<source, inst, minutes, minVars>>

\* PassMetricsCore.passing_percentage(player)
CallPassingPercentage(player) ==
    /\ Constructed
    /\ inst.cls = "PassMetricsCore"
    /\ res' = [op |-> "passing_percentage", player |-> player,
               value |-> passing_percentage(inst, SelfDf, player)]
    /\ UNCHANGED <<source, inst, minutes, minVars>>

SuccNext ==
    \/ \E r \in SuccRows : AddSourceRow(r, MaxPasses + 1)
    \/ \E outcome_column \in {"pass_outcome", Null} : ConstructBase("Pass", outcome_column)
    \/ ConstructCore(NoMap)
    \/ CallIsSuccess
    \/ \E player \in {Null, "P1", "P2"} : CallPassingPercentage(player)

SpecSucc == SuccInit /\ [][SuccNext]_vars

\* The rows of self.df whose configured outcome cell is null.
C13_NullOutcome ==
    {l \in Labels(SelfDf) :
        /\ inst.outcome_column # Null
        /\ inst.outcome_column \in SelfDf.cols
        /\ SelfDf.row[l][inst.outcome_column] = Null}

\* The rows of self.df of the call's player.
C13_Of(player) == {l \in Labels(SelfDf) : SelfDf.row[l]["player"] = player}

\* C13: _is_success has one entry per row, True exactly where the configured
\* outcome column is null, and all False when no outcome column is configured
\* or the column is not in the table; for a player with 10 pass rows of which
\* 6 have a null outcome passing_percentage is 0.6.
C13_NullOutcomeIsSuccess ==
    /\ res.op = "is_success" =>
          /\ DOMAIN res.mask = Labels(SelfDf)
          /\ \A l \in Labels(SelfDf) : res.mask[l] <=> l \in C13_NullOutcome
    /\ (/\ res.op = "passing_percentage"
        /\ res.player = "P1"
        /\ Cardinality(C13_Of("P1")) = 10
        /\ Cardinality(C13_Of("P1") \cap C13_NullOutcome) = 6)
       => res.value = <<3, 5>>

\* Ten passes of P1, six with a null outcome, next to a pass of P2.
C13_Witness ==
    /\ res.op = "passing_percentage"
    /\ res.player = "P1"
    /\ Cardinality(C13_Of("P1")) = 10
    /\ Cardinality(C13_Of("P1") \cap C13_NullOutcome) = 6
    /\ C13_Of("P2") # {}
    /\ res.value = <<3, 5>>

-----------------------------------------------------------------------------
(* The length and pressure specification: passes with a length and a       *)
(* pressure flag, in tables that may lack either column; then the          *)
(* long-ball metrics of the catalog and of the wrappers and the pressure   *)
(* metrics of the catalog.                                                 *)

LenCols == PassCols \cup {"pass_length", "under_pressure"}

LenRow(player, outcome, len, pressure) ==
    [pass_length |-> len, under_pressure |-> pressure]
    @@ [BaseRow EXCEPT !.player = player, !.pass_outcome = outcome]

\* Passes on, above and below the default threshold, complete and incomplete,
\* under pressure and not, and a pass without a length.
LenRows ==
    {LenRow("P1", Null, Num(35), VBool(TRUE)),
     LenRow("P1", Null, Num(34), VNaN),
     LenRow("P1", Null, Num(40), VNaN),
     LenRow("P1", "Incomplete", Num(40), VBool(TRUE)),
     LenRow("P1", Null, NaN, VBool(FALSE)),
     LenRow("P2", "Incomplete", Num(50), VNaN)}

LenInit ==
    /\ \E cols \in {LenCols, LenCols \ {"pass_length"}, LenCols \ {"under_pressure"}} :
            source = EmptyFrame(cols)
    /\ inst = NoInst
    /\ res = NoRes
    /\ minutes = NoMinutes
    /\ MinIdle

\* min_len: float = 35.0
DefaultMinLen == 35

\* self.long_balls(player, min_len) and self.long_ball_percentage(player,
\* min_len); PlayerPassMetrics methods take no player argument.
CallLongBalls(player, min_len) ==
    /\ Constructed
    /\ inst.cls = "PlayerPassMetrics" => player = Null
    /\ res' = [op |-> "long_balls", player |-> player, min_len |-> min_len,
               count |-> IF inst.cls = "PassMetricsCore"
                         THEN long_balls(inst, SelfDf, player, min_len)
                         ELSE wrapper_long_balls(SelfDf, player, min_len),
               pct |-> IF inst.cls = "PassMetricsCore"
                       THEN long_ball_percentage(inst, SelfDf, player, min_len)
                       ELSE wrapper_long_ball_percentage(SelfDf, player, min_len)]
    /\ UNCHANGED <<source, inst, minutes, minVars>>

\* The six pressure metrics of PassMetricsCore for one player argument.
CallPressureMetrics(player) ==
    /\ Constructed
    /\ inst.cls = "PassMetricsCore"
    /\ res' = [op |-> "pressure", player |-> player,
               passes_pressured_percentage |->
                    passes_pressured_percentage(inst, SelfDf, player),
               pressured_pass_percentage |->
                    pressured_pass_percentage(inst, SelfDf, player),
               pressured_pass_length |-> pressured_pass_length(SelfDf, player),
               successful_pressured_pass_length |->
                    successful_pressured_pass_length(inst, SelfDf, player),
               pressured_pass_length_difference |->
                    pressured_pass_length_difference(SelfDf, player),
               pressured_pass_percent_difference |->
                    pressured_pass_percent_difference(inst, SelfDf, player)]
    /\ UNCHANGED <<source, inst, minutes, minVars>>

\* self.mean_of and self.sum_of on pass_length for the rows of a player, with
\* no mask and with the pressure mask; pass_length and successful_pass_length.
CallAggregates(player) ==
    /\ Constructed
    /\ inst.cls = "PassMetricsCore"
    /\ LET sub == ByPlayer(SelfDf, player)
           masks == [b \in BOOLEAN |-> IF b THEN <<Mask(mask_pressured(sub))>> ELSE <<>>]
       IN res' = [op |-> "aggregates", player |-> player,
                  mean |-> [b \in BOOLEAN |-> mean_of(sub, "pass_length", masks[b])],
                  sum |-> [b \in BOOLEAN |-> sum_of(sub, "pass_length", masks[b])],
                  pass_length |-> pass_length(SelfDf, player),
                  successful_pass_length |-> successful_pass_length(inst, SelfDf, player)]
    /\ UNCHANGED <<source, inst, minutes, minVars>>

LenNext ==
    \/ \E r \in LenRows : AddSourceRow(r, MaxRows)
    \/ ConstructCore(NoMap)
    \/ \E sc \in {<<"CompetitionPassMetrics", Null>>, <<"TeamPassMetrics", "T1">>,
                  <<"PlayerPassMetrics", "P1">>} : ConstructScope(sc[1], sc[2])
    \/ \E player \in {Null, "P1", "P2"}, min_len \in {DefaultMinLen, 40} :
            CallLongBalls(player, min_len)
    \/ \E player \in {Null, "P1", "P2"} : CallPressureMetrics(player)
    \/ \E player \in {Null, "P1", "P2"} : CallAggregates(player)

SpecLen == LenInit /\ [][LenNext]_vars

\* The rows of the call's player whose length is at least the threshold.
C15_Long ==
    {l \in Labels(SelfDf) :
        /\ res.player = Null \/ SelfDf.row[l]["player"] = res.player
        /\ "pass_length" \in SelfDf.cols
        /\ IsNum(SelfDf.row[l]["pass_length"])
        /\ ~(Val(SelfDf.row[l]["pass_length"]) < res.min_len)}

\* C15: long_balls is the number of successful passes at least min_len long
\* and long_ball_percentage their share among the passes at least min_len
\* long; without a pass_length column they are 0 and 0.0, in the catalog as
\* in the wrappers.
C15_LongBalls ==
    res.op = "long_balls" =>
        LET done == {l \in C15_Long : SelfDf.row[l]["pass_outcome"] = Null}
        IN /\ res.count = Cardinality(done)
           /\ res.pct = IF C15_Long = {} THEN Zero
                        ELSE Frac(Cardinality(done), Cardinality(C15_Long))

\* C16: without an under_pressure column each of the six pressure metrics
\* of the catalog returns 0.0.
C16_NoPressureColumnGivesZero ==
    (res.op = "pressure" /\ "under_pressure" \notin SelfDf.cols) =>
        /\ res.passes_pressured_percentage = Zero
        /\ res.pressured_pass_percentage = Zero
        /\ res.pressured_pass_length = Zero
        /\ res.successful_pressured_pass_length = Zero
        /\ res.pressured_pass_length_difference = Zero
        /\ res.pressured_pass_percent_difference = Zero

-----------------------------------------------------------------------------
(* The ranking specification: passes of three players, some of them goal   *)
(* assists, then top_n and top_by_bool by player.                          *)

TopCols == PassCols \cup {"pass_goal_assist"}

TopRows ==
    {[pass_goal_assist |-> a] @@ [BaseRow EXCEPT !.player = p] :
        p \in {"P1", "P2", "P3"}, a \in {VBool(TRUE), VNaN}}

TopInit ==
    /\ \E cols \in {TopCols, PassCols} : source = EmptyFrame(cols)
    /\ inst = NoInst
    /\ res = NoRes
    /\ minutes = NoMinutes
    /\ MinIdle

\* self.top_n("player", n=n, value_name="passes")
CallTopN(n) ==
    /\ Constructed
    /\ \E out \in top_n(SelfDf, "player", n, "passes") :
            res' = [op |-> "top_n", n |-> n, data |-> SelfDf, out |-> out]
    /\ UNCHANGED <<source, inst, minutes, minVars>>

\* self.top_by_bool("pass_goal_assist", true_value=True, group_column="player",
\* n=n, value_name="assists")
CallTopByBool(n) ==
    /\ Constructed
    /\ \E out \in top_by_bool(SelfDf, "pass_goal_assist", "player", n, "assists") :
            res' = [op |-> "top_by_bool", n |-> n,
                    data |-> IF "pass_goal_assist" \in SelfDf.cols
                             THEN Select(SelfDf, ColumnEquals(SelfDf, "pass_goal_assist",
                                                              VBool(TRUE)))
                             ELSE EmptyFrame(SelfDf.cols),
                    out |-> out]
    /\ UNCHANGED <<source, inst, minutes, minVars>>

TopNext ==
    \/ \E r \in TopRows : AddSourceRow(r, MaxRows + 1)
    \/ ConstructBase("Pass", "pass_outcome")
    \/ \E n \in {1, 2, 5} : CallTopN(n)
    \/ \E n \in {1, 2, 5} : CallTopByBool(n)

SpecTop == TopInit /\ [][TopNext]_vars

\* The rows the call counted, the groups among them, a group's count and the
\* position of the first row of a group.
C17_Groups == {res.data.row[l]["player"] : l \in Labels(res.data)}

C17_Count(k) == Cardinality({l \in Labels(res.data) : res.data.row[l]["player"] = k})

C17_First(k) ==
    CHOOSE i \in 1..Len(res.data.index) :
        /\ res.data.row[res.data.index[i]]["player"] = k
        /\ \A j \in 1..(i - 1) : res.data.row[res.data.index[j]]["player"] # k

\* Group a comes before group b: more rows, or as many and seen first.
C17_Before(a, b) ==
    \/ C17_Count(a) > C17_Count(b)
    \/ C17_Count(a) = C17_Count(b) /\ C17_First(a) < C17_First(b)

\* C17: top_n and top_by_bool return one row per group with its count, at
\* most n rows, by count descending, groups of equal count in the order in
\* which their key is first met in the rows; the same holds for which groups
\* survive the cut to n.
C17_TopByCountThenFirstSeen ==
    res.op \in {"top_n", "top_by_bool"} =>
        LET rows == res.out.rows
            kept == {rows[i].key : i \in 1..Len(rows)}
        IN /\ Len(rows) = Min(res.n, Cardinality(C17_Groups))
           /\ kept \subseteq C17_Groups
           /\ \A i \in 1..Len(rows) : rows[i].size = C17_Count(rows[i].key)
           /\ \A i, j \in 1..Len(rows) : i < j => C17_Before(rows[i].key, rows[j].key)
           /\ \A a \in kept, b \in C17_Groups \ kept : C17_Before(a, b)

-----------------------------------------------------------------------------
(* The columns specification: event tables that lack some of the columns   *)
(* compute looks for.                                                      *)

\* The columns a table may lack.
MissingCols ==
    {{}, {"player"}, {"type"}, {"match_id"}, {"player", "type", "match_id"},
     {"card_type"}, {"substitution_replacement"}}

ColsEventPool ==
    {EventRow(k[1], k[2], c, k[3], k[4]) :
        k \in EventKinds, c \in {<<2, 15, 0>>, <<2, 45, 0>>}}

ColsInit ==
    /\ \E l \in Lineups, missing \in MissingCols :
            events = [cols |-> EventCols \ missing, rows |-> LineupRows(l)]
    /\ minutes_total = [called |-> FALSE, map |-> <<>>]
    /\ MetIdle

ColsNext ==
    \/ \E row \in ColsEventPool : AddEvent(row)
    \/ Compute

SpecCols == ColsInit /\ [][ColsNext]_vars

-----------------------------------------------------------------------------
(* Players who never come on, under the minutes specification              *)

\* p is recorded as on the field: in a Starting XI, or the incoming player of
\* a Substitution.
C19_OnField(p) ==
    \E i \in 1..Len(events.rows) :
        \/ events.rows[i].type = "Starting XI" /\ events.rows[i].player = p
        \/ /\ events.rows[i].type = "Substitution"
           /\ events.rows[i].substitution_replacement = p

\* The table with the player of every event of a never-on-field player blanked.
C19_Blanked ==
    [events EXCEPT !.rows =
        [i \in 1..Len(events.rows) |->
            IF C19_OnField(events.rows[i].player) THEN events.rows[i]
            ELSE [events.rows[i] EXCEPT !.player = Null]]]

\* C19: a player who is in no Starting XI and is never the incoming player of
\* a Substitution is not a key of the map, and the Substitution and card
\* events that name such a player leave every player's minutes as they are
\* without them.
C19_NeverOnFieldIsAbsent ==
    minutes_total.called =>
        /\ \A p \in MinPlayers : ~C19_OnField(p) => p \notin DOMAIN minutes_total.map
        /\ minutes_total.map = compute(C19_Blanked)

\* B and C start and A is sent off without ever having come on: A is no key
\* of the map.
C19_Witness ==
    /\ minutes_total.called
    /\ ~C19_OnField("A")
    /\ \E i \in 1..Len(events.rows) :
            /\ events.rows[i].player = "A"
            /\ events.rows[i].card_type = "Red Card"
    /\ DOMAIN minutes_total.map = {"B", "C"}

-----------------------------------------------------------------------------
(* The extra-time specification: matches that go to extra time and         *)
(* penalties.                                                              *)

\* The end of normal time, the end of extra time (absolute minute 120),
\* stoppage time of the second extra period (122) and the shoot-out (122).
ExtraClock == {<<2, 45, 0>>, <<4, 15, 0>>, <<4, 17, 0>>, <<5, 2, 0>>}

ExtraEventPool == {EventRow(k[1], k[2], c, k[3], k[4]) : k \in EventKinds, c \in ExtraClock}

ExtraNext ==
    \/ \E row \in ExtraEventPool : AddEvent(row)
    \/ Compute

SpecExtra == InitMin /\ [][ExtraNext]_vars

\* C20: the minutes credited to a player for a match lie between 0 and 120
\* (the tables hold one match), whatever the clock of the events.
C20_MinutesWithinMatch ==
    minutes_total.called =>
        \A p \in DOMAIN minutes_total.map :
            minutes_total.map[p] >= 0 /\ minutes_total.map[p] <= MatchEndCap

-----------------------------------------------------------------------------
(* The zone specification: PassMetricsCore(df) over passes whose start and *)
(* end x lie on and around the boundaries of the thirds, with a largest x  *)
(* that differs between tables and between the two x columns; then the     *)
(* zone masks, the zone direction shares and counts, and the deep          *)
(* progressions.                                                           *)

ZoneRows ==
    {PassAt("P1", Num(60), Num(40), Num(80), Num(40)),
     PassAt("P1", Num(40), Num(40), Num(120), Num(40)),
     PassAt("P1", Num(120), Num(40), Num(80), Num(40)),
     PassAt("P1", NaN, Num(40), Num(100), Num(40)),
     PassAt("P1", NotANumber, Num(40), Num(100), Num(40)),
     [PassAt("P2", Num(50), Num(40), Num(60), Num(40)) EXCEPT !.pass_outcome = "Incomplete"],
     PassAt("P1", Num(90), Num(40), Num(50), Num(40)),
     PassAt("P1", Num(0), Num(40), Num(0), Num(40))}

ZoneInit ==
    /\ \E cols \in {PassCols, PassCols \ {"x"}} : source = EmptyFrame(cols)
    /\ inst = NoInst
    /\ res = NoRes
    /\ minutes = NoMinutes
    /\ MinIdle

\* self._zone_series(self.df, xcol, zone) for both x columns and the three
\* zones, as _direction_masks_by_zone computes them.
CallZoneSeries ==
    /\ Constructed
    /\ res' = [op |-> "zone_series",
               start |-> [z \in Zones |-> zone_series(SelfDf, "x", z)],
               end |-> [z \in Zones |-> zone_series(SelfDf, "pass_end_x", z)]]
    /\ UNCHANGED <<source, inst, minutes, minVars>>

\* Z_pass_d_percentage, Z_pass_d_attempts and Z_pass_attempts for one zone
\* and one player argument.
CallZonePercentages(zone, player) ==
    /\ Constructed
    /\ res' = [op |-> "zone_percentages", zone |-> zone, player |-> player,
               percentage |-> [d \in {"forward", "sideways", "backward"} |->
                                  zone_pass_percentage(SelfDf, player, zone, d)],
               attempts |-> [d \in {"denom", "forward", "sideways", "backward"} |->
                                zone_pass_attempts(SelfDf, player, zone, d)]]
    /\ UNCHANGED <<source, inst, minutes, minVars>>

\* pass_deep_progressions_attempted(player) and pass_deep_progressions(player)
CallDeepProgressions(player) ==
    /\ Constructed
    /\ res' = [op |-> "deep_progressions", player |-> player,
               attempted |-> pass_deep_progressions_attempted(SelfDf, player, FALSE),
               completed |-> pass_deep_progressions(inst, SelfDf, player, FALSE)]
    /\ UNCHANGED <<source, inst, minutes, minVars>>

ZoneNext ==
    \/ \E r \in ZoneRows : AddSourceRow(r, MaxRows)
    \/ ConstructCore(NoMap)
    \/ CallZoneSeries
    \/ \E zone \in Zones, player \in {Null, "P1", "P2"} : CallZonePercentages(zone, player)
    \/ \E player \in {Null, "P1", "P2"} : CallDeepProgressions(player)

SpecZone == ZoneInit /\ [][ZoneNext]_vars

\* C21: for every zone, direction, table and player filter the percentage is
\* the direction's attempts over the zone's attempts, and 0.0 when the zone
\* has no attempts.
C21_PercentageIsAttemptsRatio ==
    res.op = "zone_percentages" =>
        \A d \in {"forward", "sideways", "backward"} :
            res.percentage[d] = IF res.attempts["denom"] > 0
                                THEN Frac(res.attempts[d], res.attempts["denom"])
                                ELSE Zero

\* The largest number of column xcol of self.df when it is positive, else 120.
C24_MaxX(xcol) ==
    LET nums == {Val(SelfDf.row[l][xcol]) :
                    l \in {k \in Labels(SelfDf) : IsNum(SelfDf.row[k][xcol])}}
        pos == {n \in nums : \A m \in nums : m <= n} \cap {n \in nums : n > 0}
    IN IF xcol \notin SelfDf.cols \/ pos = {} THEN 120 ELSE CHOOSE n \in pos : TRUE

\* The zone of a number x under t1 = max_x / 3 and t2 = 2 max_x / 3.
C24_ZoneOf(x, max_x) ==
    IF 3 * x < max_x THEN "D3" ELSE IF 3 * x < 2 * max_x THEN "M3" ELSE "F3"

\* C24: a row with a numeric x is in exactly one zone, the one its x falls
\* in under the thirds of the largest x of the column (120 without a positive
\* maximum); a row with a missing or non-numeric x is in no zone.
C24_ZonesPartitionNumericX ==
    res.op = "zone_series" =>
        /\ \A l \in Labels(SelfDf), z \in Zones :
              res.end[z][l] <=>
                  /\ IsNum(SelfDf.row[l]["pass_end_x"])
                  /\ z = C24_ZoneOf(Val(SelfDf.row[l]["pass_end_x"]), C24_MaxX("pass_end_x"))
        /\ \A l \in Labels(SelfDf), z \in Zones :
              res.start[z][l] <=>
                  /\ "x" \in SelfDf.cols
                  /\ IsNum(SelfDf.row[l]["x"])
                  /\ z = C24_ZoneOf(Val(SelfDf.row[l]["x"]), C24_MaxX("x"))

\* The largest start x is 120: the pass that starts at x = 40, on the first
\* boundary, is in the middle third only, and the pass that starts at x = 120
\* in the final third only.
C24_Witness ==
    /\ res.op = "zone_series"
    /\ C24_MaxX("x") = 120
    /\ \E l \in Labels(SelfDf) :
            /\ SelfDf.row[l]["x"] = Num(40)
            /\ res.start["M3"][l] /\ ~res.start["D3"][l] /\ ~res.start["F3"][l]
    /\ \E l \in Labels(SelfDf) :
            /\ SelfDf.row[l]["x"] = Num(120)
            /\ res.start["F3"][l] /\ ~res.start["D3"][l] /\ ~res.start["M3"][l]

\* C25: within one query the start x and the end x are classified under the
\* same boundaries: a start point and an end point with the same x are in the
\* same zone.
C25_SameBoundsForStartAndEnd ==
    res.op = "zone_series" =>
        \A l, k \in Labels(SelfDf), z \in Zones :
            (/\ "x" \in SelfDf.cols
             /\ IsNum(SelfDf.row[l]["x"])
             /\ SelfDf.row[l]["x"] = SelfDf.row[k]["pass_end_x"])
            => res.start[z][l] = res.end[z][k]

\* The rows of the call's player whose start x is a number outside the final
\* third and whose end x is inside it.
C26_Progressions ==
    LET sub == ByPlayer(SelfDf, res.player)
    IN {l \in Labels(sub) :
            /\ "x" \in sub.cols
            /\ IsNum(sub.row[l]["x"])
            /\ ~zone_series(sub, "x", "F3")[l]
            /\ zone_series(sub, "pass_end_x", "F3")[l]}

\* C26: the deep progressions count only passes with a known start x outside
\* the final third and an end x inside it; a pass without a start x is counted
\* neither as attempted nor as completed.
C26_UnknownStartNotCounted ==
    res.op = "deep_progressions" =>
        /\ res.attempted = Cardinality(C26_Progressions)
        /\ res.completed =
              Cardinality({l \in C26_Progressions :
                              ByPlayer(SelfDf, res.player).row[l]["pass_outcome"] = Null})


(***************************************************************************)
(* Aggregates of a column over the rows that match every mask.             *)
(***************************************************************************)

\* The labels of SelfDf restricted to player (all rows for Null) that pass
\* the pressure mask when pressured is TRUE.
C22_Matching(player, pressured) ==
    LET sub == ByPlayer(SelfDf, player)
    IN {l \in Labels(sub) : pressured => mask_pressured(sub)[l]}

\* The labels among ls that hold a number in pass_length.
C22_Numeric(ls) ==
    {l \in ls : "pass_length" \in SelfDf.cols /\ IsNum(to_numeric(SelfDf.row[l]["pass_length"]))}

\* C22: mean_of and sum_of aggregate the numeric values of the column over
\* the rows that match every mask, leaving out missing and non-numeric
\* values, give 0.0 when no row matches or the column is missing, and never
\* give NaN.
C22_AggregatesNeverNaN ==
    res.op = "aggregates" =>
        \A pressured \in BOOLEAN :
            LET ls == C22_Matching(res.player, pressured)
                nums == C22_Numeric(ls)
                mean == res.mean[pressured]
                sum == res.sum[pressured]
            IN /\ mean # FNaN /\ sum # FNaN
               /\ (ls = {} \/ "pass_length" \notin SelfDf.cols) => mean = Zero /\ sum = Zero
               /\ nums # {} => /\ mean = FracS(SumAt(SelfDf, "pass_length", nums), Cardinality(nums))
                               /\ sum = FracS(SumAt(SelfDf, "pass_length", nums), 1)

\* The part of C22 that the code does satisfy: the sum is never NaN, both are
\* 0.0 on an empty match set or a missing column, and the mean is the mean
\* of the numbers whenever a matching row holds one.
C22_ExceptAllMissing ==
    res.op = "aggregates" =>
        \A pressured \in BOOLEAN :
            LET ls == C22_Matching(res.player, pressured)
                nums == C22_Numeric(ls)
                mean == res.mean[pressured]
                sum == res.sum[pressured]
            IN /\ sum # FNaN
               /\ (ls = {} \/ "pass_length" \notin SelfDf.cols) => mean = Zero /\ sum = Zero
               /\ nums # {} => /\ mean = FracS(SumAt(SelfDf, "pass_length", nums), Cardinality(nums))
                               /\ sum = FracS(SumAt(SelfDf, "pass_length", nums), 1)
               /\ mean = FNaN <=> (ls # {} /\ "pass_length" \in SelfDf.cols /\ nums = {})

(***************************************************************************)
(* SpecShare: every rate-style metric of PassMetricsCore on one table.     *)
(***************************************************************************)

ShareRow(player, outcome, from, to, len, pressure, tb) ==
    [pass_length |-> len, under_pressure |-> pressure]
    @@ [PassAt(player, from[1], from[2], to[1], to[2])
            EXCEPT !.pass_outcome = outcome, !.pass_through_ball = tb]

\* Completed and failed passes into the box, inside the box and in the
\* defensive third, long and short, pressured or not, and one row without
\* coordinates or length.
ShareRows ==
    {ShareRow("P1", Null, <<Num(50), Num(40)>>, <<Num(110), Num(40)>>, Num(60), VBool(TRUE), VBool(TRUE)),
     ShareRow("P1", "Incomplete", <<Num(50), Num(40)>>, <<Num(110), Num(40)>>, Num(60), VBool(TRUE), VBool(TRUE)),
     ShareRow("P1", Null, <<Num(110), Num(40)>>, <<Num(105), Num(40)>>, Num(5), VNaN, VBool(FALSE)),
     ShareRow("P1", "Incomplete", <<Num(110), Num(40)>>, <<Num(110), Num(60)>>, Num(20), VBool(FALSE), VBool(FALSE)),
     ShareRow("P2", Null, <<Num(30), Num(40)>>, <<Num(30), Num(60)>>, Num(20), VBool(FALSE), VBool(FALSE)),
     ShareRow("P1", Null, <<NaN, NaN>>, <<NaN, NaN>>, NaN, VBool(TRUE), VBool(FALSE))}

ShareInit ==
    /\ source = EmptyFrame(LenCols)
    /\ inst = NoInst
    /\ res = NoRes
    /\ minutes = NoMinutes
    /\ MinIdle

\* The zone direction percentages: method name to zone and bucket.
ZoneRates ==
    [d3_pass_forward_percentage |-> <<"D3", "forward">>,
     d3_pass_sideways_percentage |-> <<"D3", "sideways">>,
     d3_pass_backward_percentage |-> <<"D3", "backward">>,
     m3_pass_forward_percentage |-> <<"M3", "forward">>,
     m3_pass_sideways_percentage |-> <<"M3", "sideways">>,
     m3_pass_backward_percentage |-> <<"M3", "backward">>,
     f3_pass_forward_percentage |-> <<"F3", "forward">>,
     f3_pass_sideways_percentage |-> <<"F3", "sideways">>,
     f3_pass_backward_percentage |-> <<"F3", "backward">>]

\* The rate-style metrics, by method name.
RateNames ==
    {"passing_percentage", "long_ball_percentage", "throughballs_completion_percentage",
     "pass_forward_percentage", "pass_sideways_percentage", "pass_backward_percentage",
     "passes_pressured_percentage", "pressured_pass_percentage",
     "passes_into_box_completion_percentage", "op_passes_into_box_completion_percentage",
     "passes_inside_box_completion_percentage",
     "pass_deep_progressions_completion_percentage",
     "op_pass_deep_progressions_completion_percentage"}
    \cup DOMAIN ZoneRates

\* self.<name>(player) with the default arguments; the op_ names pass
\* open_play=True.
RateOf(name, self, df, player) ==
    CASE name = "passing_percentage" -> passing_percentage(self, df, player)
      [] name = "long_ball_percentage" -> long_ball_percentage(self, df, player, DefaultMinLen)
      [] name = "throughballs_completion_percentage" ->
            throughballs_completion_percentage(self, df, player)
      [] name = "pass_forward_percentage" -> pass_direction_percentage(df, player, "forward")
      [] name = "pass_sideways_percentage" -> pass_direction_percentage(df, player, "sideways")
      [] name = "pass_backward_percentage" -> pass_direction_percentage(df, player, "backward")
      [] name = "passes_pressured_percentage" -> passes_pressured_percentage(self, df, player)
      [] name = "pressured_pass_percentage" -> pressured_pass_percentage(self, df, player)
      [] name = "passes_into_box_completion_percentage" ->
            passes_into_box_completion_percentage(self, df, player, FALSE)
      [] name = "op_passes_into_box_completion_percentage" ->
            passes_into_box_completion_percentage(self, df, player, TRUE)
      [] name = "passes_inside_box_completion_percentage" ->
            passes_inside_box_completion_percentage(self, df, player)
      [] name = "pass_deep_progressions_completion_percentage" ->
            pass_deep_progressions_completion_percentage(self, df, player, FALSE)
      [] name = "op_pass_deep_progressions_completion_percentage" ->
            pass_deep_progressions_completion_percentage(self, df, player, TRUE)
      [] OTHER -> zone_pass_percentage(df, player, ZoneRates[name][1], ZoneRates[name][2])

\* Every rate-style metric for one player argument.
CallRates(player) ==
    /\ Constructed
    /\ res' = [op |-> "rates", player |-> player,
               rate |-> [name \in RateNames |-> RateOf(name, inst, SelfDf, player)]]
    /\ UNCHANGED <<source, inst, minutes, minVars>>

ShareNext ==
    \/ \E r \in ShareRows : AddSourceRow(r, MaxRows)
    \/ ConstructCore(NoMap)
    \/ \E player \in {Null, "P1", "P2"} : CallRates(player)

SpecShare == ShareInit /\ [][ShareNext]_vars

\* A float in the closed interval [0, 1]: a fraction n / d with 0 <= n <= d.
C23_InUnitInterval(f) == f # FNaN /\ f[2] > 0 /\ 0 <= f[1] /\ f[1] <= f[2]

\* C23: every rate-style metric (completion percentages, direction shares of
\* the zones and of the whole pitch, pressure shares, box and deep-progression
\* completion percentages) is a number in [0, 1].
C23_RatesInUnitInterval ==
    res.op = "rates" => \A name \in RateNames : C23_InUnitInterval(res.rate[name])

\* Rates of 0, of 1 and strictly between: two passes into the box under
\* pressure, one completed and one not, and no pass inside the box.
C23_Witness ==
    /\ res.op = "rates"
    /\ res.player = "P1"
    /\ Len(SelfDf.index) = 2
    /\ res.rate["passing_percentage"] = Frac(1, 2)
    /\ res.rate["passes_into_box_completion_percentage"] = Frac(1, 2)
    /\ res.rate["pressured_pass_percentage"] = Frac(1, 2)
    /\ res.rate["passes_pressured_percentage"] = Frac(1, 1)
    /\ res.rate["pass_forward_percentage"] = Frac(1, 1)
    /\ res.rate["passes_inside_box_completion_percentage"] = Zero

(***************************************************************************)
(* SpecFall: PassMetricsCore(df) with and without a minutes map over       *)
(* events of several types and matches, then the per-90 metrics.           *)
(***************************************************************************)

\* Passes of P1 and P2 in match 1, match 2 and an unknown match, all flagged
\* as through balls, and shots of P1.
FallRows ==
    {[BaseRow EXCEPT !.player = p, !.match_id = m, !.pass_through_ball = VBool(TRUE)] :
        p \in {"P1", "P2"}, m \in {Num(1), Num(2), NaN}}
    \cup {[BaseRow EXCEPT !.type = "Shot", !.match_id = m] : m \in {Num(1), Num(2)}}

FallInit ==
    /\ \E cols \in {PassCols, PassCols \ {"match_id"}} : source = EmptyFrame(cols)
    /\ inst = NoInst
    /\ res = NoRes
    /\ minutes = NoMinutes
    /\ MinIdle

FallNext ==
    \/ \E r \in FallRows : AddSourceRow(r, MaxRows)
    \/ \E minutes_map \in P90Maps : ConstructCore(minutes_map)
    \/ \E player \in {"P1", "P2"} : CallThroughballsAttemptedPer90(player)

SpecFall == FallInit /\ [][FallNext]_vars

\* The distinct matches in which the player has a pass row of the source
\* table; a table without a match column is one match.
C27_Matches(player) ==
    LET ls == {l \in Labels(source) :
                  source.row[l]["type"] = "Pass" /\ source.row[l]["player"] = player}
    IN IF "match_id" \in source.cols
       THEN {source.row[l]["match_id"] : l \in ls} \ {NaN}
       ELSE {1 : l \in ls}

\* The divisor _per90 uses for the key.
C27_Divisor(key) ==
    IF key \in DOMAIN inst.minutes_map /\ inst.minutes_map[key] > 0
    THEN inst.minutes_map[key]
    ELSE 90

\* C27: a per-90 metric divides by the key's minutes, and by 90 when the key
\* is absent from the minutes map or its minutes are zero or negative; a
\* construction without a minutes map gives each player 90 minutes for every
\* distinct match the player has a pass row in, and no entry to a player
\* with none.
C27_FallbackMinutes ==
    /\ [](res.op = "throughballs_attempted_per90" =>
            res.value = Frac(res.count * 90, C27_Divisor(res.player)))
    /\ [][ConstructCore(NoMap) =>
            /\ DOMAIN inst'.minutes_map = {p \in {"P1", "P2"} : C27_Matches(p) # {}}
            /\ \A p \in DOMAIN inst'.minutes_map :
                    inst'.minutes_map[p] = 90 * Cardinality(C27_Matches(p))]_vars

\* P1 has a pass in match 1 and P2 a pass in an unknown match; without a
\* minutes map P1 gets 90 minutes and P2 no entry, and the one through ball
\* of P2 is 1.0 per 90.
C27_Witness ==
    /\ res.op = "throughballs_attempted_per90"
    /\ res.player = "P2"
    /\ res.count = 1
    /\ res.value = Frac(1, 1)
    /\ "match_id" \in source.cols
    /\ Len(source.index) = 2
    /\ C27_Matches("P1") = {Num(1)}
    /\ C27_Matches("P2") = {}
    /\ inst.minutes_map = ("P1" :> 90)

(***************************************************************************)
(* SpecMulti: compute over a table that covers two matches; rows arrive in *)
(* any order.                                                              *)
(***************************************************************************)

MultiMatches == {1, 2}

MultiClock == {<<2, 15, 0>>, <<2, 45, 0>>}

\* A substitution, the reverse substitution and a red card, in either match.
MultiEventPool ==
    {[EventRow(k[1], k[2], c, k[3], k[4]) EXCEPT !.match_id = m] :
        k \in {<<"Substitution", "B", "C", Null>>, <<"Substitution", "C", "B", Null>>,
               <<"Foul Committed", "A", Null, "Red Card">>},
        c \in MultiClock, m \in MultiMatches}

\* A and B start match 1; match 2 has no lineup, the lineup A, B or B, C.
MultiInit ==
    /\ \E l \in Lineups :
            events = [cols |-> EventCols,
                      rows |-> LineupRows(<<"A", "B">>)
                               \o [i \in 1..Len(l) |->
                                      [StartingRow(l[i]) EXCEPT !.match_id = 2]]]
    /\ minutes_total = [called |-> FALSE, map |-> <<>>]
    /\ MetIdle

\* The caller appends an event of either match, in any order.
AddMatchEvent(row) ==
    /\ ~minutes_total.called
    /\ NumEvents < MaxEvents
    /\ events' = [events EXCEPT !.rows = Append(@, row)]
    /\ UNCHANGED <<minutes_total, metVars>>

MultiNext ==
    \/ \E row \in MultiEventPool : AddMatchEvent(row)
    \/ Compute

SpecMulti == MultiInit /\ [][MultiNext]_vars

\* compute on the rows of one match alone.
C28_Alone(m) ==
    LET InMatch(r) == r.match_id = m
    IN compute([events EXCEPT !.rows = SelectSeq(@, InMatch)])

\* The player's minutes in a map, 0.0 for a player the map does not hold.
C28_At(map, p) == IF p \in DOMAIN map THEN map[p] ELSE 0

\* C28: compute is additive over matches: each player's total is the sum of
\* what compute gives the player on each match's rows alone, so no event of
\* one match changes the player's window in another.
C28_AdditiveOverMatches ==
    minutes_total.called =>
        /\ DOMAIN minutes_total.map = DOMAIN C28_Alone(1) \cup DOMAIN C28_Alone(2)
        /\ \A p \in DOMAIN minutes_total.map :
                minutes_total.map[p] = C28_At(C28_Alone(1), p) + C28_At(C28_Alone(2), p)

\* B is replaced by C after 60 minutes of match 1, which lasts 90 minutes,
\* and B and C start match 2 and play its 90 minutes: B has 60 + 90 minutes
\* and C 30 + 90.
C28_Witness ==
    /\ minutes_total.called
    /\ \E i \in 1..Len(events.rows) :
            /\ events.rows[i].match_id = 1
            /\ events.rows[i].type = "Substitution"
            /\ events.rows[i].player = "B"
    /\ C28_Alone(1) = ("A" :> 5400 @@ "B" :> 3600 @@ "C" :> 1800)
    /\ C28_Alone(2) = ("B" :> 5400 @@ "C" :> 5400)
    /\ minutes_total.map = ("A" :> 5400 @@ "B" :> 9000 @@ "C" :> 7200)

(***************************************************************************)
(* The order of the input rows of compute.                                 *)
(***************************************************************************)

\* The orders of n rows: the bijections of 1..n.
C29_Orders(n) == {f \in [1..n -> 1..n] : \A i, j \in 1..n : f[i] = f[j] => i = j}

\* The event table with its rows in the order f.
C29_Reordered(f) == [events EXCEPT !.rows = [i \in 1..Len(events.rows) |-> events.rows[f[i]]]]

\* C29: compute returns the same map for every order of the input rows,
\* events that share one (period, minute, second) included.
C29_SameMapForEveryOrder ==
    minutes_total.called =>
        \A f \in C29_Orders(Len(events.rows)) :
            compute(C29_Reordered(f)) = minutes_total.map

\* Two rows of one match with the same sort key.
C29_Tie ==
    \E i, j \in 1..Len(events.rows) :
        /\ i # j
        /\ events.rows[i].type # "Starting XI"
        /\ events.rows[j].type # "Starting XI"
        /\ KeyLeq(events.rows[i], events.rows[j])
        /\ KeyLeq(events.rows[j], events.rows[i])

\* The part of C29 the stable sort does give: without two events on the same
\* clock, the order of the input rows does not matter.
C29_SameMapWithoutTies ==
    (minutes_total.called /\ ~C29_Tie) =>
        \A f \in C29_Orders(Len(events.rows)) :
            compute(C29_Reordered(f)) = minutes_total.map

(***************************************************************************)
(* SpecMap: the caller builds a minutes dict, injects it with              *)
(* set_minutes_map or hands it to the constructor, goes on changing it,    *)
(* and reads minutes_for and per-90 metrics.                               *)
(***************************************************************************)

MapPlayers == {"P1", "P2"}

\* The minutes the caller writes into its dict.
MapMinutes == {45, 90}

\* One through ball of each player.
MapRows == {[BaseRow EXCEPT !.player = p, !.pass_through_ball = VBool(TRUE)] : p \in MapPlayers}

MapInit ==
    /\ source = EmptyFrame(PassCols)
    /\ inst = NoInst
    /\ res = NoRes
    /\ minutes = NoMinutes
    /\ MinIdle

\* minutes = {...}: the caller binds a new dict; the instance keeps whatever
\* object it holds.
NewMinutes(d) ==
    /\ minutes.d # d \/ minutes.held
    /\ minutes' = [d |-> d, held |-> FALSE]
    /\ UNCHANGED <<source, inst, res, minVars>>

\* minutes[k] = v by the caller; the instance sees it when it holds the
\* same object.
SetItem(k, v) ==
    /\ get(minutes.d, k, 0) # v
    /\ minutes' = [minutes EXCEPT !.d = (k :> v) @@ @]
    /\ inst' = IF minutes.held THEN [inst EXCEPT !.minutes_map = minutes'.d] ELSE inst
    /\ UNCHANGED <<source, res, minVars>>

\* del minutes[k] by the caller.
DelItem(k) ==
    /\ k \in DOMAIN minutes.d
    /\ minutes' = [minutes EXCEPT !.d = [j \in DOMAIN @ \ {k} |-> @[j]]]
    /\ inst' = IF minutes.held THEN [inst EXCEPT !.minutes_map = minutes'.d] ELSE inst
    /\ UNCHANGED <<source, res, minVars>>

\* PassMetricsCore(source, minutes_map=minutes): dict(minutes_map) is a copy.
ConstructCoreWithMinutes ==
    /\ ConstructCore(Dict(minutes.d))

\* self.set_minutes_map(minutes)
SetMinutesMap ==
    /\ Constructed
    /\ inst' = set_minutes_map(inst, minutes.d)
    /\ minutes' = [minutes EXCEPT !.held = stores_argument(minutes.d)]
    /\ UNCHANGED <<source, res, minVars>>

\* self.minutes_for(player)
CallMinutesFor(player) ==
    /\ Constructed
    /\ res' = [op |-> "minutes_for", player |-> player, value |-> minutes_for(inst, player)]
    /\ UNCHANGED <<source, inst, minutes, minVars>>

MapNext ==
    \/ \E r \in MapRows : AddSourceRow(r, MaxRows)
    \/ \E d \in {<<>>} \cup {("P1" :> m) : m \in MapMinutes} : NewMinutes(d)
    \/ \E k \in MapPlayers, v \in MapMinutes : SetItem(k, v)
    \/ \E k \in MapPlayers : DelItem(k)
    \/ ConstructCore(NoMap)
    \/ ConstructCoreWithMinutes
    \/ SetMinutesMap
    \/ \E player \in MapPlayers : CallMinutesFor(player)
    \/ \E player \in MapPlayers : CallPer90(3, player)
    \/ \E player \in MapPlayers : CallThroughballsAttemptedPer90(player)

SpecMap == MapInit /\ [][MapNext]_vars

\* The caller changes its dict: an entry is added, changed or removed.
C30_CallerChange ==
    \/ \E k \in MapPlayers, v \in MapMinutes : SetItem(k, v)
    \/ \E k \in MapPlayers : DelItem(k)

\* What minutes_for, per_90 and a per-90 metric return for the player.
C30_Results(self, df, player) ==
    <<minutes_for(self, player), per_90(self, 3, player),
      throughballs_attempted_per90(self, df, player)>>

\* C30: after set_minutes_map(m), a change the caller makes to m changes
\* neither minutes_for nor any per-90 result of the instance; the injected
\* map changes only through another set_minutes_map call.
C30_CallerChangesDoNotReach ==
    [][/\ (Constructed /\ C30_CallerChange) =>
            \A p \in MapPlayers : C30_Results(inst', SelfDf', p) = C30_Results(inst, SelfDf, p)
       /\ (Constructed /\ inst'.minutes_map # inst.minutes_map) => SetMinutesMap]_vars

\* The part of C30 the code does give: a map handed to the constructor, and
\* an empty map handed to set_minutes_map, are out of the caller's reach.
C30_CopiesAreOutOfReach ==
    [][(Constructed /\ ~minutes.held /\ C30_CallerChange) =>
            /\ inst'.minutes_map = inst.minutes_map
            /\ \A p \in MapPlayers : C30_Results(inst', SelfDf', p) = C30_Results(inst, SelfDf, p)]_vars
=============================================================================
